---- MODULE Spec2Model ----
(***************************************************************************)
(* Emergency-braking pipeline of DSE_2025: the central-director (fleet     *)
(* coordinator: decision rules, brake command publish, brake flag with its *)
(* clearing timers, event log) and the emergency-brake vehicle agent's     *)
(* /processed-data decision.                                               *)
(*                                                                         *)
(* Python values are modelled as follows.  None is the empty set and a     *)
(* number x is the singleton {x} (an "optional"); a dict is a function     *)
(* whose DOMAIN is the set of keys present, so that `k in data` and        *)
(* data.get(k) are told apart as the code tells them apart.  Distances    *)
(* are whole metres, rates whole m/s, time whole seconds.                  *)
(***************************************************************************)
EXTENDS Integers, Sequences, FiniteSets, TLC

\* ------------------------------------------------------------------ bounds
MaxTime       == 11  \* the clock runs 0..MaxTime seconds
MaxDeliveries == 2   \* requests and messages handled in one behaviour
MaxDist     == 42   \* distances explored by the rule specification
MaxRate     == 7    \* rates explored by the rule specification: -MaxRate..MaxRate
MaxDbFaults == 2    \* consecutive INSERTs a database fault makes fail
MaxStamp    == 3    \* sample timestamps explored: 0..MaxStamp seconds
MaxEvents   == 5    \* stored events when the log is paged: 0..MaxEvents
LargeLog    == 250  \* ... and one long log
MaxPage     == 4    \* page arguments explored: -1..MaxPage
MaxLimit    == 3    \* limit arguments explored: 0..MaxLimit, and the default
RecursionLimit == 3 \* frames the interpreter allows (sys.getrecursionlimit(), scaled down)

\* ------------------------------------------------------- program constants
BrakeTimerSeconds  == 10   \* threading.Timer(10.0, ...)
CriticalDistance   == 20   \* distance < 20
CriticalDelta      == -3   \* delta < -3
WarningDistance    == 40   \* distance < 40
WarningDelta       == -5   \* delta < -5
DeviationThreshold == 20   \* deviation > 20
FrontCone          == 45   \* bearing_diff <= 45
FrontConeWrap      == 315  \* bearing_diff >= 315

Vehicles == {"V1", "V2"}

\* ------------------------------------------------------- Python values
None      == {}
Some(x)   == {x}
Val(o)    == CHOOSE x \in o : TRUE
IsNone(o) == o = {}

\* F(x) with x evaluated once, as a local variable assigned once is.
Once(x, F(_)) == CHOOSE y \in {F(v) : v \in {x}} : TRUE

\* datamock.py: emergency_brake_state as the module creates it, and as the
\* simulation loop leaves it when a brake has ended.
brake_duration == 10
NotBraking == [is_braking |-> FALSE, brake_start_time |-> None,
               brake_duration |-> brake_duration, brake_position |-> None]
Abs(x)    == IF x < 0 THEN -x ELSE x

\* data.get(k): None when the key is absent
Get(data, k) == IF k \in DOMAIN data THEN data[k] ELSE None
\* (data.get(k, 0) or 0): absent, null and 0 all give 0
GetOrZero(data, k) == IF IsNone(Get(data, k)) THEN 0 ELSE Val(Get(data, k))
\* data.get("vehicle_id"): a vehicle id, or "None" when absent
NoneId == "None"
VehicleId(data) == IF "vehicle_id" \in DOMAIN data THEN data["vehicle_id"] ELSE NoneId
EmptyDict == [x \in {} |-> None]
\* {**d1, **d2}
Merge(d1, d2) == [k \in DOMAIN d1 \cup DOMAIN d2 |-> IF k \in DOMAIN d2 THEN d2[k] ELSE d1[k]]

\* ------------------------------------------------------- reasons
\* The reason strings of the two decision sites.  The source writes the Greek
\* capital delta where "delta" stands here, and appends the deviation in
\* metres, "(30.0m)", to the deviation reason.
ReasonRule1     == "DM: <20m & delta<-3m/s"
ReasonRule2     == "DM: <40m & delta<-5m/s"
ReasonDeviation == "Deviation: LT vs DM >20m"
ReasonCritical  == "CRITICAL: distance < 20m and closing rate > 3m/s"
ReasonWarning   == "WARNING: distance < 40m and closing rate > 5m/s"

\* ------------------------------------------------------- state
VARIABLES
    vehicle_details,   \* central-director: vehicle id -> fleet-state entry
    timers,            \* started, not yet fired Timer objects: <<[vehicle_id, due]>>
    now,               \* wall clock, seconds
    connection,        \* the global connection of the service a specification runs
                       \* (central-director, emergency-brake, location sender):
                       \* "none" | "open" | "closed"
    channel,           \* the global channel that goes with it
    brake_commands,    \* messages published to the brake_commands queue
    events,            \* rows of the events table, oldest first
    broker_up,         \* environment: the RabbitMQ broker is reachable
    db_faults,         \* environment: how many of the next INSERTs sqlite refuses
    tracker,           \* environment: the location tracker's current answer
    delivered,         \* requests and messages delivered to the handlers so far
    handled,           \* the handler invocation that ran last, and what it did
    consumer,          \* a service's consumer thread: "consuming" | "dead", and
                       \* "waiting" while a consumer loop sleeps before a retry
    agent_log,         \* vehicle agents: what each command and request led to
    gps_data,          \* location tracker: rows of its gps_data table
    gps_db_up,         \* environment: the location tracker's sqlite accepts INSERTs
    deployment,        \* distance monitor: [mode, filter] from its environment
    last_readings,     \* distance monitor: vehicle id -> last [front, rear, timestamp]
    monitored,         \* distance monitor: the sample handled last, and what it gave
    threads,           \* threads followed step by step: those of the distance
                       \* monitor inside calculate_velocity, the central-director's
                       \* inside get_vehicles_status, a service's consumer loop,
                       \* the datamock's simulation loop
    emergency_brake_state  \* datamock: the simulated vehicle's brake state

\* The state of the services around the central-director.
fleet_vars == <<consumer, agent_log, gps_data, gps_db_up>>
monitor_vars == <<deployment, last_readings, monitored, threads, emergency_brake_state>>

vars == <<vehicle_details, timers, now, connection, channel, brake_commands,
          events, broker_up, db_faults, tracker, delivered, handled,
          consumer, agent_log, gps_data, gps_db_up,
          deployment, last_readings, monitored, threads, emergency_brake_state>>

\* The globals and the environment a handler reads and writes, passed through
\* the calls it makes; saves_failed collects the event types whose INSERT
\* raised, saves counts the calls of save_event that returned.
Globals == [vehicle_details |-> vehicle_details, connection |-> connection,
            channel |-> channel, brake_commands |-> brake_commands,
            events |-> events, broker_up |-> broker_up, db_faults |-> db_faults,
            tracker |-> tracker, saves_failed |-> {}, saves |-> 0]

\* ------------------------------------------------------- event log
\* A row of the events table.  id is INTEGER PRIMARY KEY AUTOINCREMENT: one
\* more than the largest id the table has held.
Event(id, event_type, details) ==
    [id |-> id, event_type |-> event_type, details |-> details]
next_id(rows) == IF rows = << >> THEN 1 ELSE rows[Len(rows)].id + 1

\* SELECT COUNT(*) FROM events, as the health probe reports it
health_check(rows) == [status |-> "ok", events_logged |-> Len(rows)]

\* the table holding the newest event only
save_event_keeping_latest(g, event_type, details) ==
    IF g.db_faults = 0
    THEN [g |-> [g EXCEPT !.events = <<Event(next_id(@), event_type, details)>>,
                          !.saves = @ + 1],
          raised |-> FALSE]
    ELSE [g |-> [g EXCEPT !.db_faults = @ - 1, !.saves_failed = @ \cup {event_type}],
          raised |-> TRUE]

\* save_event: one INSERT and commit, which raises when sqlite refuses it.
save_event(g, event_type, details) ==
    IF g.db_faults = 0
    THEN [g |-> [g EXCEPT !.events = Append(@, Event(next_id(@), event_type, details)),
                          !.saves = @ + 1],
          raised |-> FALSE]
    ELSE [g |-> [g EXCEPT !.db_faults = @ - 1, !.saves_failed = @ \cup {event_type}],
          raised |-> TRUE]

\* GET /api/logs.  page_arg and limit are the request's arguments after
\* request.args.get(..., type=int).  The rows come from
\* ORDER BY id DESC LIMIT limit OFFSET offset; a limit of 0 makes the ceiling
\* division raise ZeroDivisionError.
DefaultLimit == 100
Min(a, b) == IF a < b THEN a ELSE b
Max(a, b) == IF a > b THEN a ELSE b
newest_first(rows) == [i \in 1..Len(rows) |-> rows[Len(rows) + 1 - i]]

\* total_count // limit
total_pages_floor(total_count, limit) == total_count \div limit

\* (total_count + limit - 1) // limit
total_pages(total_count, limit) == (total_count + limit - 1) \div limit

get_events(rows, page_arg, limit) ==
    LET page == Max(1, page_arg)
        offset == (page - 1) * limit
        total_count == Len(rows)
        selected == SubSeq(newest_first(rows), offset + 1, Min(offset + limit, total_count))
    IN  IF limit = 0 THEN [status |-> "500"]
        ELSE [status |-> "200",
              events |-> [i \in 1..Len(selected) |->
                             [type |-> selected[i].event_type,
                              details |-> selected[i].details]],
              pagination |-> [page |-> page, limit |-> limit,
                              total_count |-> total_count,
                              total_pages |-> total_pages(total_count, limit),
                              has_next |-> page < total_pages(total_count, limit),
                              has_prev |-> page > 1]]

\* ------------------------------------------------------- tracker geometry
\* The tracker's answer places the vehicles on one meridian: a location's gps
\* is its position in metres along it and position_delta its last movement.
\* On a meridian the haversine distance is the difference of the positions
\* and the initial bearing is 0 (north), or 180 when the target lies south.
calculate_distance(p1, p2) == Abs(p2 - p1)
calculate_bearing(p1, p2) == IF p2 < p1 THEN 180 ELSE 0

SetMin(S) == CHOOSE x \in S : \A y \in S : x <= y

\* get_lt_distance: resp is the tracker's answer to latest-locations,
\*   kind "timeout"   requests.get raises a RequestException
\*   kind "non200"    status_code != 200
\*   kind "badjson"   response.json() raises requests' JSONDecodeError, which
\*                    is a RequestException
\*   kind "ok"        locations is the parsed list of dicts
\* The result is in value (None or a distance); raised tells that an exception
\* other than RequestException left the function; failure names what went
\* wrong with the answer ("none" when nothing did).
LtReturn(v, failure) == [raised |-> FALSE, value |-> v, failure |-> failure]
LtRaise(failure)     == [raised |-> TRUE, value |-> None, failure |-> failure]

get_lt_distance(vehicle_id, resp) ==
    IF resp.kind = "timeout" THEN LtReturn(None, "timeout")
    ELSE IF resp.kind = "non200" THEN LtReturn(None, "non200")
    ELSE IF resp.kind = "badjson" THEN LtReturn(None, "badjson")
    ELSE
    LET locs    == resp.locations
        idx     == 1..Len(locs)
        hasId(i) == "vehicle_id" \in DOMAIN locs[i]
        matches == {i \in idx : hasId(i) /\ locs[i]["vehicle_id"] = vehicle_id}
        first   == IF matches = {} THEN Len(locs) + 1 ELSE SetMin(matches)
    IN  IF \E j \in idx : j < first /\ ~hasId(j)
        THEN LtRaise("missing_field")                      \* loc['vehicle_id']
        ELSE IF matches = {} THEN LtReturn(None, "none")   \* not found in LT data
        ELSE
        LET cur == locs[first] IN
        IF "gps" \notin DOMAIN cur
        THEN LtRaise("missing_field")                      \* current_vehicle['gps']
        ELSE
        LET pos == cur["gps"]
            current_bearing ==
                IF "position_delta" \in DOMAIN cur /\ cur["position_delta"] # 0
                THEN Some(calculate_bearing(pos, pos + cur["position_delta"]))
                ELSE None
            is_in_front(i) ==
                IF IsNone(current_bearing) THEN TRUE
                ELSE LET bearing_diff ==
                            Abs(calculate_bearing(pos, locs[i]["gps"]) - Val(current_bearing))
                     IN  bearing_diff <= FrontCone \/ bearing_diff >= FrontConeWrap
        IN  IF \E j \in idx : ~hasId(j) THEN LtRaise("missing_field")
            ELSE
            LET others == {i \in idx : locs[i]["vehicle_id"] # vehicle_id} IN
            IF \E j \in others : "gps" \notin DOMAIN locs[j]
            THEN LtRaise("missing_field")
            ELSE
            LET front == {calculate_distance(pos, locs[i]["gps"]) :
                              i \in {j \in others : is_in_front(j)}}
            IN  IF front = {} THEN LtReturn(None, "none")
                ELSE LtReturn(Some(SetMin(front)), "none")

\* ------------------------------------------------------- decision rules
\* rule 1 with the comparisons not strict
rule_critical_not_strict(distance, delta) ==
    distance <= CriticalDistance /\ delta <= CriticalDelta
rule_critical(distance, delta) == distance < CriticalDistance /\ delta < CriticalDelta
rule_warning(distance, delta)  == distance < WarningDistance /\ delta < WarningDelta
rule_deviation(lt_distance, distance) == Abs(lt_distance - distance) > DeviationThreshold

\* What evaluate_rules gives back: the returned pair (trigger, reason), the
\* globals afterwards, whether the call raised, and what the tracker lookup
\* gave (lt_asked = FALSE when rule 3 was not reached).
EvalResult(g, trigger, reason, raised, lt_asked, lt) ==
    [g |-> g, trigger |-> trigger, reason |-> reason, raised |-> raised,
     lt_asked |-> lt_asked, lt_distance |-> lt.value, lt_failure |-> lt.failure]
NoLt == LtReturn(None, "none")

\* evaluate_rules(dm_data): dm_data is the dict {vehicle_id, distance, delta}
\* process_message builds.
evaluate_rules(g, dm_data) ==
    LET vehicle_id == dm_data.vehicle_id
        distance   == dm_data.distance
        delta      == dm_data.delta
    IN  IF IsNone(distance) \/ IsNone(delta)
        THEN EvalResult(g, FALSE, "", FALSE, FALSE, NoLt)
        ELSE IF rule_critical(Val(distance), Val(delta))
        THEN EvalResult(g, TRUE, ReasonRule1, FALSE, FALSE, NoLt)
        ELSE IF rule_warning(Val(distance), Val(delta))
        THEN EvalResult(g, TRUE, ReasonRule2, FALSE, FALSE, NoLt)
        ELSE
        Once(get_lt_distance(vehicle_id, g.tracker), LAMBDA lt :
            IF lt.raised THEN EvalResult(g, FALSE, "", TRUE, TRUE, lt)
            ELSE IF ~IsNone(lt.value) /\ rule_deviation(Val(lt.value), Val(distance))
            THEN LET s == save_event(g, "distance_deviation", vehicle_id) IN
                 IF s.raised THEN EvalResult(s.g, FALSE, "", TRUE, TRUE, lt)
                 ELSE EvalResult(s.g, TRUE, ReasonDeviation, FALSE, TRUE, lt)
            ELSE EvalResult(g, FALSE, "", FALSE, TRUE, lt))

\* The emergency-brake service's decision in its /processed-data handler:
\* the answer (status code, danger, reason) for a request body.
eb_evaluate(data) ==
    LET front_distance == Get(data, "front_distance_m")
        front_velocity == Get(data, "front_velocity_mps")
    IN  IF IsNone(front_distance) \/ IsNone(front_velocity)
        THEN [code |-> 400, danger |-> FALSE, reason |-> ""]
        ELSE IF Val(front_distance) < CriticalDistance /\ Val(front_velocity) < CriticalDelta
        THEN [code |-> 200, danger |-> TRUE, reason |-> ReasonCritical]
        ELSE IF Val(front_distance) < WarningDistance /\ Val(front_velocity) < WarningDelta
        THEN [code |-> 200, danger |-> TRUE, reason |-> ReasonWarning]
        ELSE [code |-> 200, danger |-> FALSE, reason |-> ""]

\* ------------------------------------------------------- central-director
NewEntry == [brake |-> FALSE, front_distance |-> None, rear_distance |-> None,
             front_distance_change |-> None, rear_distance_change |-> None]

\* vehicle_details[vehicle_id] = {...} if vehicle_id not in vehicle_details
EnsureEntry(vd, vehicle_id) ==
    IF vehicle_id \in DOMAIN vd THEN vd
    ELSE [v \in DOMAIN vd \cup {vehicle_id} |-> IF v = vehicle_id THEN NewEntry ELSE vd[v]]

\* init_rabbitmq as called for a reconnect: every exception is caught, and on
\* failure both globals keep their old (closed) values.
init_rabbitmq(g) ==
    IF g.broker_up THEN [g EXCEPT !.connection = "open", !.channel = "open"] ELSE g

BrakeCommand(vehicle_id, reason, t) ==
    [command |-> "brake", vehicle_id |-> vehicle_id, reason |-> reason, timestamp |-> t]

\* channel.basic_publish of the brake message on the global channel: it
\* raises on a closed channel or an unreachable broker, and the connection
\* is then found lost.
publish_brake(g, vehicle_id, reason, t) ==
    IF g.channel = "open" /\ g.broker_up
    THEN [g |-> [g EXCEPT !.brake_commands =
                              Append(@, BrakeCommand(vehicle_id, reason, t))],
          raised |-> FALSE]
    ELSE [g |-> [g EXCEPT !.connection = "closed", !.channel = "closed"],
          raised |-> TRUE]

\* trigger_emergency_break(vehicle_id, reason) at time t.  The result is the
\* globals afterwards, whether the command was published and whether an
\* exception left the function (only the 'error' insert can do that).
trigger_emergency_break(g, vehicle_id, reason, t) ==
    LET g1 == IF g.connection # "open" THEN init_rabbitmq(g) ELSE g
        p  == publish_brake(g1, vehicle_id, reason, t)
        s1 == IF p.raised THEN [g |-> p.g, raised |-> TRUE]
              ELSE save_event(p.g, "emergency_break", vehicle_id)
        s2 == IF s1.raised THEN save_event(s1.g, "error", vehicle_id) ELSE s1
    IN  [g |-> s2.g, published |-> ~p.raised, raised |-> s2.raised]

IsDistanceMonitor(data) ==
    "front_distance_m" \in DOMAIN data /\ "front_velocity_mps" \in DOMAIN data
IsLocationTracker(data) == ~IsNone(Get(data, "lat")) /\ ~IsNone(Get(data, "lng"))
IsLog(data) == "log_message" \in DOMAIN data /\ data["log_message"] # ""

\* delta = (front_velocity_mps or 0) - (rear_velocity_mps or 0)
message_delta(data) ==
    GetOrZero(data, "front_velocity_mps") - GetOrZero(data, "rear_velocity_mps")

\* the assignments to the vehicle's entry
update_vehicle(vd, data) ==
    LET vehicle == VehicleId(data)
        vd1 == EnsureEntry(vd, vehicle)
    IN  IF vehicle = NoneId THEN vd
        ELSE [vd1 EXCEPT ![vehicle] =
                 [@ EXCEPT !.front_distance = Get(data, "front_distance_m"),
                           !.rear_distance = Get(data, "rear_distance_m"),
                           !.front_distance_change = Some(GetOrZero(data, "front_velocity_mps")),
                           !.rear_distance_change = Some(GetOrZero(data, "front_velocity_mps"))]]

ProcResult(g, raised, branch, ev, published) ==
    [g |-> g, raised |-> raised, branch |-> branch, trigger |-> ev.trigger,
     reason |-> ev.reason, lt_asked |-> ev.lt_asked, lt_distance |-> ev.lt_distance,
     lt_failure |-> ev.lt_failure, published |-> published]
NoEval(g) == EvalResult(g, FALSE, "", FALSE, FALSE, NoLt)

\* process_message(data) at time t
process_message(g, data, t) ==
    IF IsDistanceMonitor(data) THEN
        LET vehicle == VehicleId(data)
            g1 == [g EXCEPT !.vehicle_details = update_vehicle(@, data)]
        IN  Once(evaluate_rules(g1, [vehicle_id |-> vehicle,
                                     distance |-> Get(data, "front_distance_m"),
                                     delta |-> Some(message_delta(data))]), LAMBDA ev :
            IF ev.raised THEN ProcResult(ev.g, TRUE, "distance_monitor", ev, FALSE)
            ELSE IF ev.trigger THEN
                LET tr == trigger_emergency_break(ev.g, vehicle, ev.reason, t)
                IN  ProcResult(tr.g, tr.raised, "distance_monitor", ev, tr.published)
            ELSE ProcResult(ev.g, FALSE, "distance_monitor", ev, FALSE))
    ELSE
        LET branch == IF IsLocationTracker(data) THEN "location_tracker"
                      ELSE IF IsLog(data) THEN "log" ELSE "unknown_message"
            event_type == IF branch = "log"
                          THEN (IF "log_sender" \in DOMAIN data
                                THEN data["log_sender"] ELSE "unknown")
                          ELSE branch
            s == save_event(g, event_type, VehicleId(data))
        IN  ProcResult(s.g, s.raised, branch, NoEval(g), FALSE)

\* ------------------------------------------------------- handlers
\* The record of a handler invocation kept in `handled`.
Handled(handler, data, response, acks, r, t) ==
    [handler |-> handler, data |-> data, response |-> response, acks |-> acks,
     raised |-> r.raised, branch |-> r.branch, trigger |-> r.trigger,
     reason |-> r.reason, lt_asked |-> r.lt_asked, lt_distance |-> r.lt_distance,
     lt_failure |-> r.lt_failure, published |-> r.published,
     saves_failed |-> r.g.saves_failed, saves |-> r.g.saves, time |-> t]
NotProcessed(g, raised) == ProcResult(g, raised, "none", NoEval(g), FALSE)

\* A request or message body that is not JSON.
Unparsable == [unparsable |-> TRUE]
IsJson(body) == "unparsable" \notin DOMAIN body

\* The broker responses a consumer callback of the central-director gives,
\* acknowledging before the message is processed.
callback_responses_ack_first(raised) ==
    IF raised THEN <<"ack", "nack_requeue">> ELSE <<"ack">>

\* The broker responses a consumer callback of the central-director gives, in
\* order: basic_ack is the last statement of the try block, basic_nack with
\* requeue=True the except block.
callback_responses(raised) ==
    IF raised THEN <<"nack_requeue">> ELSE <<"ack">>

\* What the broker has been told about the delivery.
BrokerResponse(acks) ==
    IF Len(acks) = 1 THEN acks[1] ELSE IF acks = << >> THEN "none" ELSE "several"

\* The handler's writes to the globals, and the delivery counted.
SetDirector(g) ==
    /\ vehicle_details' = g.vehicle_details
    /\ connection' = g.connection
    /\ channel' = g.channel
    /\ brake_commands' = g.brake_commands
    /\ events' = g.events
    /\ db_faults' = g.db_faults
    /\ delivered' = delivered + 1
    /\ UNCHANGED <<broker_up, tracker>>
    /\ UNCHANGED <<consumer, agent_log, gps_data, gps_db_up>>
SetGlobals(g) ==
    /\ SetDirector(g)
    /\ UNCHANGED monitor_vars

\* POST /processed-data of the central-director: get_json raises on a body
\* that is not JSON, an empty body gets 400, any exception gets 500.
processed_data_request(data) ==
    /\ \E r \in {IF ~IsJson(data) THEN NotProcessed(Globals, TRUE)
                  ELSE IF data = EmptyDict THEN NotProcessed(Globals, FALSE)
                  ELSE process_message(Globals, data, now)} :
           LET response == IF r.raised THEN "500"
                           ELSE IF data = EmptyDict THEN "400" ELSE "200"
           IN  /\ SetGlobals(r.g)
               /\ handled' = Handled("receive_processed_data", data, response, << >>, r, now)
    /\ UNCHANGED <<timers, now>>

receive_processed_data(data) ==
    /\ delivered < MaxDeliveries
    /\ processed_data_request(data)

\* eb_callback: consumer of the brake_status queue
eb_callback(body) ==
    /\ delivered < MaxDeliveries
    /\ consumer = "consuming"
    /\ LET vehicle_id == VehicleId(body)
           sets == IsJson(body) /\ vehicle_id # NoneId
           vd1 == EnsureEntry(vehicle_details, vehicle_id)
           g1 == IF sets
                 THEN [Globals EXCEPT !.vehicle_details =
                                          [vd1 EXCEPT ![vehicle_id].brake = TRUE]]
                 ELSE Globals
       IN  \E r \in {IF ~IsJson(body) THEN NotProcessed(Globals, TRUE)
                      ELSE process_message(g1, body, now)} :
           /\ SetGlobals(r.g)
           /\ timers' = IF sets
                        THEN Append(timers, [vehicle_id |-> vehicle_id,
                                             due |-> now + BrakeTimerSeconds])
                        ELSE timers
           /\ handled' = Handled("eb_callback", body,
                                 BrokerResponse(callback_responses(r.raised)),
                                 callback_responses(r.raised), r, now)
    /\ UNCHANGED now

\* event_callback: consumer of the events queue
event_callback(body) ==
    /\ delivered < MaxDeliveries
    /\ consumer = "consuming"
    /\ \E r \in {IF ~IsJson(body) THEN NotProcessed(Globals, TRUE)
                  ELSE process_message(Globals, body, now)} :
           /\ SetGlobals(r.g)
           /\ handled' = Handled("event_callback", body,
                                 BrokerResponse(callback_responses(r.raised)),
                                 callback_responses(r.raised), r, now)
    /\ UNCHANGED <<timers, now>>

\* The broker connection drops: channel.start_consuming() raises in the
\* consumer thread, which start_rabbit_consuming lets end (the thread is a
\* daemon, the Flask process goes on), and the connection is found closed.
ConnectionLost ==
    /\ broker_up
    /\ connection = "open"
    /\ broker_up' = FALSE
    /\ connection' = "closed"
    /\ channel' = "closed"
    /\ consumer' = "dead"
    /\ UNCHANGED <<vehicle_details, timers, now, brake_commands, events, db_faults,
                   tracker, delivered, handled, agent_log, gps_data, gps_db_up>>
    /\ UNCHANGED monitor_vars

\* The broker is reachable again.
BrokerRestored ==
    /\ ~broker_up
    /\ broker_up' = TRUE
    /\ UNCHANGED <<vehicle_details, timers, now, connection, channel, brake_commands,
                   events, db_faults, tracker, delivered, handled>>
    /\ UNCHANGED <<fleet_vars, monitor_vars>>

\* ------------------------------------------------------- GET /api/vehicles
\* get_vehicles_status runs in a request thread of its own while the request
\* and consumer threads write vehicle_details: no lock is taken.  The thread
\* is followed through the list comprehension: each next() of the dict
\* iterator, which raises RuntimeError once the dict has changed size, and
\* each subscript of the live entry.  threads holds its position, together
\* with every value each vehicle's entry has had so far (moments).
SnapshotThread == "snapshot"
SnapshotFields == <<"brake", "front_distance", "rear_distance",
                    "front_distance_change", "rear_distance_change">>
SnapshotIdle == [pc |-> "idle", used |-> 0, todo |-> {}, vid |-> NoneId, read |-> EmptyDict,
                 vehicles |-> << >>, moments |-> EmptyDict, response |-> "none"]
Snapshot == IF SnapshotThread \in DOMAIN threads THEN threads[SnapshotThread] ELSE SnapshotIdle
SetSnapshot(s) == threads' = [t \in {SnapshotThread} |-> s]

\* The values the entry of the message's vehicle takes while process_message
\* runs lines 350-357: created, then one field assigned after the other.
entry_moments(vd, data) ==
    LET v  == VehicleId(data)
        e0 == EnsureEntry(vd, v)[v]
        e1 == [e0 EXCEPT !.front_distance = Get(data, "front_distance_m")]
        e2 == [e1 EXCEPT !.rear_distance = Get(data, "rear_distance_m")]
        e3 == [e2 EXCEPT !.front_distance_change = Some(GetOrZero(data, "front_velocity_mps"))]
    IN  {e0, e1, e2, e3, update_vehicle(vd, data)[v]}

\* POST /processed-data handled by another thread, before, while or after
\* the snapshot is taken.
processed_data_beside_snapshot(data) ==
    /\ delivered < MaxDeliveries
    /\ VehicleId(data) # NoneId
    /\ \E r \in {process_message(Globals, data, now)} :
       LET v == VehicleId(data)
           m == Snapshot.moments
       IN  /\ SetDirector(r.g)
           /\ handled' = Handled("receive_processed_data", data,
                                 IF r.raised THEN "500" ELSE "200", << >>, r, now)
           /\ SetSnapshot([Snapshot EXCEPT !.moments =
                               Merge(m, [x \in {v} |->
                                            (IF v \in DOMAIN m THEN m[v] ELSE {})
                                                \cup entry_moments(vehicle_details, data)])])
    /\ UNCHANGED <<timers, now, deployment, emergency_brake_state, last_readings, monitored>>

snapshot_unchanged ==
    /\ UNCHANGED <<vehicle_details, timers, now, connection, channel, brake_commands,
                   events, broker_up, db_faults, tracker, delivered, handled>>
    /\ UNCHANGED <<fleet_vars, deployment, emergency_brake_state, last_readings, monitored>>

\* vehicle_details.items() and the iterator over it
snapshot_begins ==
    /\ Snapshot.pc = "idle"
    /\ SetSnapshot([Snapshot EXCEPT !.pc = "next",
                                    !.used = Cardinality(DOMAIN vehicle_details),
                                    !.todo = DOMAIN vehicle_details])
    /\ snapshot_unchanged

\* next() of the iterator: RuntimeError (caught, 500) when the dict changed
\* size, the list returned with 200 when no item is left
snapshot_next ==
    /\ Snapshot.pc = "next"
    /\ IF Cardinality(DOMAIN vehicle_details) # Snapshot.used
       THEN SetSnapshot([Snapshot EXCEPT !.pc = "done", !.response = "500"])
       ELSE IF Snapshot.todo = {}
       THEN SetSnapshot([Snapshot EXCEPT !.pc = "done", !.response = "200"])
       ELSE \E v \in Snapshot.todo :
                SetSnapshot([Snapshot EXCEPT !.pc = "read", !.vid = v, !.todo = @ \ {v},
                                             !.read = EmptyDict])
    /\ snapshot_unchanged

\* details[field] for the next field of the entry being copied
snapshot_reads ==
    /\ Snapshot.pc = "read"
    /\ LET k    == SnapshotFields[Cardinality(DOMAIN Snapshot.read) + 1]
           read == Merge(Snapshot.read, [f \in {k} |-> vehicle_details[Snapshot.vid][k]])
       IN  IF Cardinality(DOMAIN read) < Len(SnapshotFields)
           THEN SetSnapshot([Snapshot EXCEPT !.read = read])
           ELSE SetSnapshot([Snapshot EXCEPT
                                !.pc = "next", !.read = EmptyDict,
                                !.vehicles = Append(@, [vehicle_id |-> Snapshot.vid,
                                                        entry |-> read])])
    /\ snapshot_unchanged

\* ------------------------------------------------------- distance monitor
\* Distances are whole metres, timestamps whole seconds; the samples are
\* chosen so that every mean and every rate is a whole number, and Quot is
\* then the exact quotient.
CmPerMetre == 100
Quot(a, b) == IF b > 0 THEN a \div b ELSE -(a \div (-b))

RECURSIVE Sum(_)
Sum(s) == IF s = << >> THEN 0 ELSE Head(s) + Sum(Tail(s))

\* data.get(k, {}) of a sensor group
Group(data, k) == IF k \in DOMAIN data THEN data[k] ELSE EmptyDict

\* the readings `key in group and group[key] is not None` lets into a list
Reading(group, key) ==
    IF key \in DOMAIN group /\ ~IsNone(group[key]) THEN <<Val(group[key])>> ELSE << >>

\* an ultrasonic reading taken for metres as it is
ultrasonic_unconverted(readings) == readings

\* ultrasonic[...] / 100.0
ultrasonic_metres(readings) == [i \in DOMAIN readings |-> Quot(readings[i], CmPerMetre)]

\* sum(distances) / len(distances) if distances else None
average(distances) ==
    IF distances = << >> THEN None ELSE Some(Quot(Sum(distances), Len(distances)))

calculate_distance_meters(data) ==
    LET ultrasonic == Group(data, "ultrasonic")
        radar      == Group(data, "radar")
        camera     == Group(data, "camera")
        lidar      == Group(data, "lidar")
        front_distances ==
            ultrasonic_metres(Reading(ultrasonic, "front_distance_cm"))
                \o Reading(radar, "object_distance_m")
                \o Reading(camera, "front_estimate_m")
                \o Reading(lidar, "front_estimate_m")
        rear_distances ==
            ultrasonic_metres(Reading(ultrasonic, "rear_distance_cm"))
                \o Reading(camera, "rear_estimate_m")
                \o Reading(lidar, "rear_estimate_m")
    IN  [front |-> average(front_distances), rear |-> average(rear_distances)]

\* the rate of one side computed whatever the sign of the elapsed time
side_velocity_any_elapsed(prev_time, prev_side, side, timestamp) ==
    IF ~IsNone(prev_side) /\ ~IsNone(side)
    THEN LET time_diff == timestamp - prev_time
         IN  IF time_diff # 0 THEN Some(Quot(Val(side) - Val(prev_side), time_diff))
             ELSE None
    ELSE None

\* the rate of one side; prev_time is a datetime and as such always true
side_velocity(prev_time, prev_side, side, timestamp) ==
    IF ~IsNone(prev_side) /\ ~IsNone(side)
    THEN LET time_diff == timestamp - prev_time
         IN  IF time_diff > 0 THEN Some(Quot(Val(side) - Val(prev_side), time_diff))
             ELSE None
    ELSE None

Reading3(front, rear, timestamp) == [front |-> front, rear |-> rear, timestamp |-> timestamp]

\* the reading kept only when it is newer than the one stored
store_reading_if_newer(lr, vehicle_id, front, rear, timestamp) ==
    IF vehicle_id \in DOMAIN lr /\ lr[vehicle_id].timestamp >= timestamp THEN lr
    ELSE Merge(lr, [v \in {vehicle_id} |-> Reading3(front, rear, timestamp)])

\* last_readings[vehicle_id] = {...}
store_reading(lr, vehicle_id, front, rear, timestamp) ==
    Merge(lr, [v \in {vehicle_id} |-> Reading3(front, rear, timestamp)])

\* the velocity computed from a stored reading
velocity_from(prev, front, rear, timestamp) ==
    [front_mps |-> side_velocity(prev.timestamp, prev.front, front, timestamp),
     rear_mps  |-> side_velocity(prev.timestamp, prev.rear, rear, timestamp)]
NoVelocity == [front_mps |-> None, rear_mps |-> None]

calculate_velocity(lr, vehicle_id, front, rear, timestamp) ==
    [velocity |-> IF vehicle_id \in DOMAIN lr
                  THEN velocity_from(lr[vehicle_id], front, rear, timestamp)
                  ELSE NoVelocity,
     last_readings |-> store_reading(lr, vehicle_id, front, rear, timestamp)]

\* the payload send_processed_data posts (backend mode: to the
\* central-director; vehicle mode: to the emergency-brake service, and
\* publishes); a failed POST or publish is caught and logged
send_processed_data(vehicle_id, front, rear, velocity, timestamp) ==
    [vehicle_id |-> vehicle_id, front_distance_m |-> front, rear_distance_m |-> rear,
     front_velocity_mps |-> velocity.front_mps, rear_velocity_mps |-> velocity.rear_mps,
     timestamp |-> timestamp]

\* What a call of process_sensor_data did: result is "invalid" (returned
\* False), "filtered", "processed" (both returned True) or "raised".
Monitored(result, data, prev, fused, velocity, sent, lr) ==
    [result |-> result, data |-> data, prev |-> prev, front |-> fused.front,
     rear |-> fused.rear, velocity |-> velocity, sent |-> sent, last_readings |-> lr]
NoFusion == [front |-> None, rear |-> None]
NotMonitored == [handler |-> "none", response |-> "none", result |-> "none",
                 data |-> EmptyDict, prev |-> None, front |-> None, rear |-> None,
                 velocity |-> NoVelocity, sent |-> None,
                 before |-> EmptyDict, arrived |-> EmptyDict]

\* A missing or unparsable timestamp takes the branch
\* datetime.now(datetime.timezone.utc), which raises AttributeError: datetime
\* is the class here and has no attribute timezone.
process_sensor_data(dep, lr, data) ==
    IF data = EmptyDict \/ "vehicle_id" \notin DOMAIN data
    THEN Monitored("invalid", data, None, NoFusion, NoVelocity, None, lr)
    ELSE IF dep.mode = "backend" /\ dep.filter # NoneId /\ data.vehicle_id # dep.filter
    THEN Monitored("filtered", data, None, NoFusion, NoVelocity, None, lr)
    ELSE IF IsNone(Get(data, "timestamp"))
    THEN Monitored("raised", data, None, NoFusion, NoVelocity, None, lr)
    ELSE LET vehicle_id == data.vehicle_id
             timestamp == Val(data.timestamp)
             sensor_data == IF "sensors" \in DOMAIN data THEN data.sensors ELSE data
             fused == calculate_distance_meters(sensor_data)
             cv == calculate_velocity(lr, vehicle_id, fused.front, fused.rear, timestamp)
         IN  Monitored("processed", data,
                       IF vehicle_id \in DOMAIN lr THEN Some(lr[vehicle_id]) ELSE None,
                       fused, cv.velocity,
                       Some(send_processed_data(vehicle_id, fused.front, fused.rear,
                                                cv.velocity, timestamp)),
                       cv.last_readings)

\* The handler's record in `monitored` and its write to last_readings.
\* The record keeps, per vehicle, the fused sample that reached
\* calculate_velocity last, in order of arrival: before and after this call.
SetMonitored(handler, response, r) ==
    /\ monitored' = [handler |-> handler, response |-> response, result |-> r.result,
                     data |-> r.data, prev |-> r.prev, front |-> r.front, rear |-> r.rear,
                     velocity |-> r.velocity, sent |-> r.sent,
                     before |-> monitored.arrived,
                     arrived |-> IF r.result = "processed"
                                 THEN Merge(monitored.arrived,
                                            [v \in {r.data.vehicle_id} |->
                                                Reading3(r.front, r.rear,
                                                         Val(r.data.timestamp))])
                                 ELSE monitored.arrived]
    /\ last_readings' = r.last_readings
    /\ UNCHANGED <<deployment, emergency_brake_state, threads>>
    /\ UNCHANGED <<vehicle_details, timers, now, connection, channel, brake_commands,
                   events, broker_up, db_faults, tracker, delivered, handled>>
    /\ UNCHANGED fleet_vars

\* The consumer passing every vehicle's message on, whatever the filter.
process_sensor_message_unfiltered(body) ==
    /\ deployment.mode = "backend"
    /\ LET r == IF IsJson(body)
                THEN process_sensor_data([deployment EXCEPT !.filter = NoneId],
                                         last_readings, body)
                ELSE Monitored("raised", body, None, NoFusion, NoVelocity, None, last_readings)
       IN  SetMonitored("process_sensor_message", "ack", r)

\* process_sensor_message: consumer of the sensor_data queue (backend mode);
\* every path acknowledges.
process_sensor_message(body) ==
    /\ deployment.mode = "backend"
    /\ LET r == IF IsJson(body) THEN process_sensor_data(deployment, last_readings, body)
                ELSE Monitored("raised", body, None, NoFusion, NoVelocity, None, last_readings)
       IN  SetMonitored("process_sensor_message", "ack", r)

\* POST /sensor-data (vehicle mode only)
receive_sensor_data(data) ==
    IF deployment.mode # "vehicle"
    THEN SetMonitored("receive_sensor_data", "404",
                      Monitored("none", data, None, NoFusion, NoVelocity, None, last_readings))
    ELSE LET r == IF IsJson(data) THEN process_sensor_data(deployment, last_readings, data)
                  ELSE Monitored("raised", data, None, NoFusion, NoVelocity, None, last_readings)
         IN  SetMonitored("receive_sensor_data",
                          IF r.result = "raised" THEN "500"
                          ELSE IF r.result = "invalid" THEN "400" ELSE "200", r)

\* Concurrent requests.  Flask serves each POST /sensor-data in a thread of
\* its own and no lock guards last_readings, so a thread can be preempted
\* between calculate_velocity's read of the stored reading and its write.
\* A request thread is at "read" (before line 117), at "write" (before line
\* 134) or "done".
RequestThreads == {"t1", "t2"}
ThreadFused(th) == calculate_distance_meters(threads[th].data)
director_and_fleet_unchanged ==
    /\ UNCHANGED <<vehicle_details, timers, now, connection, channel, brake_commands,
                   events, broker_up, db_faults, tracker, delivered, handled>>
    /\ UNCHANGED fleet_vars

\* receive_sensor_data up to the call of calculate_velocity
request_begins(th, data) ==
    /\ deployment.mode = "vehicle"
    /\ th \notin DOMAIN threads
    /\ threads' = Merge(threads, [t \in {th} |->
                                     [pc |-> "read", data |-> data, velocity |-> NoVelocity,
                                      sent |-> None]])
    /\ UNCHANGED <<deployment, emergency_brake_state, last_readings, monitored>>
    /\ director_and_fleet_unchanged

\* calculate_velocity, lines 115-131: the rates from the stored reading
cv_read(th) ==
    /\ th \in DOMAIN threads
    /\ threads[th].pc = "read"
    /\ LET data == threads[th].data
           cv == calculate_velocity(last_readings, data.vehicle_id, ThreadFused(th).front,
                                    ThreadFused(th).rear, Val(data.timestamp))
       IN  threads' = [threads EXCEPT ![th].pc = "write", ![th].velocity = cv.velocity]
    /\ UNCHANGED <<deployment, emergency_brake_state, last_readings, monitored>>
    /\ director_and_fleet_unchanged

\* calculate_velocity, lines 134-140, and the rest of the request: the
\* reading stored, the processed message sent
cv_write(th) ==
    /\ th \in DOMAIN threads
    /\ threads[th].pc = "write"
    /\ LET data == threads[th].data
       IN  /\ last_readings' = store_reading(last_readings, data.vehicle_id,
                                             ThreadFused(th).front, ThreadFused(th).rear,
                                             Val(data.timestamp))
           /\ threads' = [threads EXCEPT
                             ![th].pc = "done",
                             ![th].sent = Some(send_processed_data(
                                                  data.vehicle_id, ThreadFused(th).front,
                                                  ThreadFused(th).rear, threads[th].velocity,
                                                  Val(data.timestamp)))]
    /\ UNCHANGED <<deployment, emergency_brake_state, monitored>>
    /\ director_and_fleet_unchanged

\* ------------------------------------------------------- vehicle agents
\* A vehicle agent is an emergency-brake service started with its VEHICLE_ID;
\* the repository holds two builds of it.
Agents == {[vehicle_id |-> v, build |-> b] :
              v \in Vehicles, b \in {"emergency-brake.py", "emergency_brake.py"}}

\* What requests.post does with the brake signal: the datamock answers, a
\* RequestException is raised (refused, timed out), or another exception is.
PostOutcomes == {"answers", "request_exception", "other_exception"}

\* send_brake_signal_to_datamock: the POST to the agent's own datamock, which
\* answers 400 to a vehicle id that is not its own; a RequestException is
\* caught and only logged, any other exception leaves the function.
send_brake_signal_to_datamock(a, vehicle_id, post) ==
    IF post = "other_exception" THEN "raised"
    ELSE IF post = "request_exception" THEN "unreachable"
    ELSE IF vehicle_id # a.vehicle_id THEN "mismatch"
    ELSE "accepted"

\* callback of brake_command_listener on a command of the brake_commands
\* queue: emergency_brake.py returns on a command for another vehicle, both
\* builds publish brake_applied whatever became of a brake signal that
\* returned; an exception out of it is caught by the callback and logged.
brake_command_callback(a, cmd, post, broker) ==
    IF a.build = "emergency_brake.py" /\ cmd.vehicle_id # a.vehicle_id
    THEN [agent |-> a.vehicle_id, build |-> a.build, vehicle_id |-> cmd.vehicle_id,
          outcome |-> "ignored", status |-> FALSE]
    ELSE LET signal == send_brake_signal_to_datamock(a, cmd.vehicle_id, post)
         IN  [agent |-> a.vehicle_id, build |-> a.build, vehicle_id |-> cmd.vehicle_id,
              outcome |-> IF signal = "accepted" THEN "applied" ELSE signal,
              status |-> broker /\ signal # "raised"]

\* The broker hands the oldest unconsumed command to one of the agents
\* consuming brake_commands; with auto_ack=True it is gone from the queue
\* once delivered, whatever the callback does with it.
brake_command_listener(a) ==
    /\ broker_up
    /\ Len(agent_log) < Len(brake_commands)
    /\ \E post \in PostOutcomes :
           agent_log' = Append(agent_log,
                               brake_command_callback(a, brake_commands[Len(agent_log) + 1],
                                                      post, broker_up))
    /\ UNCHANGED <<vehicle_details, timers, now, connection, channel, brake_commands,
                   events, broker_up, db_faults, tracker, delivered, handled>>
    /\ UNCHANGED <<consumer, gps_data, gps_db_up>>
    /\ UNCHANGED monitor_vars

\* ------------------------------------------------------- emergency-brake service
\* The service of emergency-brake.py as one process: its globals connection
\* and channel are "none" before the first connect, "open" while is_open
\* holds and "closed" after pika noticed the loss.  An open connection to a
\* broker that is gone makes basic_publish raise.

\* The message publish_brake_success puts on brake_status.
BrakeStatus(vehicle_id) == [vehicle_id |-> vehicle_id, status |-> "brake_applied"]

\* connect_to_rabbitmq(): the globals afterwards and the returned flag.
connect_to_rabbitmq(up) ==
    IF up THEN [connection |-> "open", ok |-> TRUE]
    ELSE [connection |-> "none", ok |-> FALSE]

\* What a step of the service gives: the connection afterwards, the POSTs sent
\* to the datamock, the messages put on brake_status, whether it raised.
Effects(conn, signals, published, raised) ==
    [connection |-> conn, signals |-> signals, published |-> published, raised |-> raised]

\* publish_brake_success(vehicle_id): reconnects lazily, publishes when it has
\* a connection and only logs when it has none.
publish_brake_success(conn, up, vehicle_id) ==
    LET c == IF conn # "open" THEN connect_to_rabbitmq(up)
             ELSE [connection |-> conn, ok |-> TRUE]
    IN  IF ~c.ok THEN Effects(c.connection, << >>, << >>, FALSE)
        ELSE IF up THEN Effects("open", << >>, <<BrakeStatus(vehicle_id)>>, FALSE)
        ELSE Effects("closed", << >>, << >>, TRUE)

\* The status published before the brake signal is sent.
process_brake_command_status_first(a, conn, up, vehicle_id, post) ==
    LET signal == send_brake_signal_to_datamock(a, vehicle_id, post)
        p      == publish_brake_success(conn, up, vehicle_id)
    IN  Effects(p.connection, <<signal>>, p.published, p.raised \/ signal = "raised")

\* send_brake_signal_to_datamock followed by publish_brake_success, the body
\* of process_brake_command and of the danger branch of /processed-data.
process_brake_command(a, conn, up, vehicle_id, post) ==
    LET signal == send_brake_signal_to_datamock(a, vehicle_id, post)
        p      == publish_brake_success(conn, up, vehicle_id)
    IN  IF signal = "raised" THEN Effects(conn, <<signal>>, << >>, TRUE)
        ELSE Effects(p.connection, <<signal>>, p.published, p.raised)

\* The log entry of one request or command of the service.
Served(handler, vehicle_id, post, danger, status, conn, up, e) ==
    [handler |-> handler, vehicle_id |-> vehicle_id, post |-> post, danger |-> danger,
     status |-> status, connection |-> conn, broker_up |-> up,
     signals |-> e.signals, published |-> e.published]

\* POST /processed-data of the emergency-brake service started as agent a.
brake_service_evaluate(a, conn, up, data, post) ==
    IF ~IsJson(data)
    THEN [connection |-> conn,
          log |-> Served("processed_data", NoneId, post, FALSE, "500", conn, up,
                         Effects(conn, << >>, << >>, TRUE))]
    ELSE
    LET vehicle_id     == IF "vehicle_id" \in DOMAIN data THEN data["vehicle_id"]
                          ELSE a.vehicle_id
        front_distance == Get(data, "front_distance_m")
        front_velocity == Get(data, "front_velocity_mps")
        missing        == vehicle_id = NoneId \/ IsNone(front_distance) \/ IsNone(front_velocity)
        danger         == /\ ~missing
                          /\ \/ rule_critical(Val(front_distance), Val(front_velocity))
                             \/ rule_warning(Val(front_distance), Val(front_velocity))
        e              == IF danger THEN process_brake_command(a, conn, up, vehicle_id, post)
                          ELSE Effects(conn, << >>, << >>, FALSE)
        status         == IF missing THEN "400" ELSE IF e.raised THEN "500" ELSE "200"
    IN  [connection |-> e.connection,
         log |-> Served("processed_data", vehicle_id, post, danger, status, conn, up, e)]

brake_service_request(a, data) ==
    /\ Len(agent_log) < MaxDeliveries
    /\ \E post \in PostOutcomes :
           LET r == brake_service_evaluate(a, connection, broker_up, data, post)
           IN  /\ agent_log' = Append(agent_log, r.log)
               /\ connection' = r.connection
               /\ channel' = r.connection
    /\ UNCHANGED <<vehicle_details, timers, now, brake_commands, events, broker_up,
                   db_faults, tracker, delivered, handled>>
    /\ UNCHANGED <<consumer, gps_data, gps_db_up>>
    /\ UNCHANGED monitor_vars

\* The callback of brake_command_listener in emergency-brake.py on a message
\* of brake_commands: vehicle_id defaults to VEHICLE_ID, only command "brake"
\* is processed, every exception is caught.
brake_service_command(a, msg) ==
    /\ Len(agent_log) < MaxDeliveries
    /\ connection = "open"
    /\ \E post \in PostOutcomes :
           LET vehicle_id == IF "vehicle_id" \in DOMAIN msg THEN msg["vehicle_id"]
                             ELSE a.vehicle_id
               brake      == "command" \in DOMAIN msg /\ msg["command"] = "brake"
               e          == IF brake
                             THEN process_brake_command(a, connection, broker_up, vehicle_id, post)
                             ELSE Effects(connection, << >>, << >>, FALSE)
           IN  /\ agent_log' = Append(agent_log,
                                      Served("brake_command", vehicle_id, post, brake, "none",
                                             connection, broker_up, e))
               /\ connection' = e.connection
               /\ channel' = e.connection
    /\ UNCHANGED <<vehicle_details, timers, now, brake_commands, events, broker_up,
                   db_faults, tracker, delivered, handled>>
    /\ UNCHANGED <<consumer, gps_data, gps_db_up>>
    /\ UNCHANGED monitor_vars

\* ------------------------------------------------------- brake command listener
\* emergency_brake.py keeps connection and channel per thread; the consumer
\* thread's are the ones its callback publishes on.

\* get_thread_local_connection(): connects when there is no connection or
\* it is closed, and raises when that fails.
get_thread_local_connection(conn, up) ==
    IF conn = "open" \/ up THEN [connection |-> "open", raised |-> FALSE]
    ELSE [connection |-> "none", raised |-> TRUE]

\* The try block of publish_event and of publish_brake_success: the
\* connection, then basic_publish, which raises on a connection whose
\* broker is gone.
thread_local_publish(conn, up) ==
    LET c == get_thread_local_connection(conn, up)
    IN  IF c.raised THEN [connection |-> "none", sent |-> FALSE]
        ELSE IF up THEN [connection |-> "open", sent |-> TRUE]
        ELSE [connection |-> "closed", sent |-> FALSE]

\* publish_event without its except clause.
publish_event_unguarded(conn, up) ==
    LET p == thread_local_publish(conn, up)
    IN  [connection |-> p.connection, sent |-> p.sent, raised |-> ~p.sent]

\* publish_event(event_msg): every exception is caught and logged.
publish_event(conn, up) ==
    LET p == thread_local_publish(conn, up)
    IN  [connection |-> p.connection, sent |-> p.sent, raised |-> FALSE]

\* What the callback did with one message of brake_commands: own says it was
\* a brake command for this vehicle, audit is what became of each
\* publish_event, in order.
Listened(vehicle_id, own, post, conn, up, audit, signals, published, after) ==
    [connection |-> after,
     log |-> [handler |-> "listener", vehicle_id |-> vehicle_id, own |-> own, post |-> post,
              connection |-> conn, broker_up |-> up, audit |-> audit,
              signals |-> signals, published |-> published]]

\* callback of brake_command_listener in emergency_brake.py, with
\* process_brake_command, send_brake_signal_to_datamock and
\* publish_brake_success as it calls them.
listener_callback(a, conn, up, msg, post) ==
    LET vehicle_id == IF "vehicle_id" \in DOMAIN msg THEN msg["vehicle_id"] ELSE a.vehicle_id
        own    == /\ "command" \in DOMAIN msg
                  /\ msg["command"] = "brake"
                  /\ vehicle_id = a.vehicle_id
        p1     == publish_event(conn, up)
        p2     == publish_event(p1.connection, up)
        signal == send_brake_signal_to_datamock(a, vehicle_id, post)
        p3     == IF post = "answers" THEN publish_event(p2.connection, up)
                  ELSE [connection |-> p2.connection, sent |-> FALSE, raised |-> FALSE]
        audit3 == IF post = "answers" THEN <<p1.sent, p2.sent, p3.sent>>
                  ELSE <<p1.sent, p2.sent>>
        p4     == thread_local_publish(p3.connection, up)
    IN  IF p1.raised \/ ~own
        THEN Listened(vehicle_id, own, post, conn, up, <<p1.sent>>, << >>, << >>,
                      p1.connection)
        ELSE IF p2.raised
        THEN Listened(vehicle_id, own, post, conn, up, <<p1.sent, p2.sent>>, << >>, << >>,
                      p2.connection)
        ELSE IF signal = "raised" \/ p3.raised
        THEN Listened(vehicle_id, own, post, conn, up, audit3, <<signal>>, << >>,
                      p3.connection)
        ELSE Listened(vehicle_id, own, post, conn, up, audit3, <<signal>>,
                      IF p4.sent THEN <<BrakeStatus(vehicle_id)>> ELSE << >>,
                      p4.connection)

\* The listener is handed a message of brake_commands.
listener_consumes(a, msg) ==
    /\ consumer = "consuming"
    /\ connection = "open"
    /\ Len(agent_log) < MaxDeliveries
    /\ \E post \in PostOutcomes :
           LET r == listener_callback(a, connection, broker_up, msg, post)
           IN  /\ agent_log' = Append(agent_log, r.log)
               /\ connection' = r.connection
               /\ channel' = r.connection
    /\ UNCHANGED <<vehicle_details, timers, now, brake_commands, events, broker_up,
                   db_faults, tracker, delivered, handled>>
    /\ UNCHANGED <<consumer, gps_data, gps_db_up>>
    /\ UNCHANGED monitor_vars

\* ------------------------------------------------------- consumer loops
\* The consumer threads of the distance monitor (start_rabbitmq_consumer),
\* the location tracker (rabbitmq_consumer) and emergency_brake.py
\* (brake_command_listener).  consumer is "consuming" inside
\* start_consuming, "waiting" in the sleep after a failure and "dead" once
\* the thread has ended.  The first two retry in a while True loop; the
\* listener retries by calling itself from its except block, one frame
\* deeper each time, until the interpreter's recursion limit is reached
\* and RecursionError leaves every frame.
ConsumerLoops == {"distance-monitor.py", "location-tracker.py", "emergency_brake.py"}
RABBITMQ_RECONNECT_DELAY == 5
ConsumerThread == "consumer"
Loop == threads[ConsumerThread]

loop_unchanged ==
    /\ UNCHANGED <<vehicle_details, timers, now, brake_commands, events, db_faults,
                   tracker, delivered, handled>>
    /\ UNCHANGED <<agent_log, gps_data, gps_db_up>>
    /\ UNCHANGED <<deployment, emergency_brake_state, last_readings, monitored>>

\* The broker goes away; the consumer has not noticed yet.
BrokerLost ==
    /\ broker_up
    /\ broker_up' = FALSE
    /\ UNCHANGED <<connection, channel, consumer, threads>>
    /\ loop_unchanged

\* start_consuming raises on the lost connection and the except block is
\* entered: the thread sleeps RABBITMQ_RECONNECT_DELAY seconds.
consumer_fails ==
    /\ consumer = "consuming"
    /\ ~broker_up
    /\ consumer' = "waiting"
    /\ connection' = "closed"
    /\ channel' = "closed"
    /\ threads' = [threads EXCEPT ![ConsumerThread].waited = RABBITMQ_RECONNECT_DELAY]
    /\ UNCHANGED broker_up
    /\ loop_unchanged

\* The sleep is over and the loop connects again: the next iteration of
\* while True, or the nested call of brake_command_listener.
consumer_retries ==
    /\ consumer = "waiting"
    /\ LET nested  == Loop.service = "emergency_brake.py"
           depth   == IF nested THEN Loop.depth + 1 ELSE Loop.depth
       IN  IF nested /\ depth >= RecursionLimit
           THEN /\ consumer' = "dead"
                /\ threads' = [threads EXCEPT ![ConsumerThread].depth = depth]
                /\ UNCHANGED <<connection, channel>>
           ELSE /\ threads' = [threads EXCEPT
                                   ![ConsumerThread].depth = depth,
                                   ![ConsumerThread].waited =
                                       IF broker_up THEN 0 ELSE RABBITMQ_RECONNECT_DELAY]
                /\ consumer' = IF broker_up THEN "consuming" ELSE "waiting"
                /\ connection' = IF broker_up THEN "open" ELSE "none"
                /\ channel' = connection'
    /\ UNCHANGED broker_up
    /\ loop_unchanged

\* ------------------------------------------------------- location tracker
\* store_gps_data validating with all([vehicle_id, latitude, longitude])
store_gps_data_truthy(rows, db_up, data, t) ==
    LET vehicle_id == VehicleId(data)
        gps        == IF "gps" \in DOMAIN data THEN data["gps"] ELSE Some(EmptyDict)
        gps_null   == IsNone(gps)
        latitude   == IF gps_null THEN None ELSE Get(Val(gps), "latitude")
        longitude  == IF gps_null THEN None ELSE Get(Val(gps), "longitude")
        timestamp  == IF IsNone(Get(data, "timestamp")) THEN Some(t)
                      ELSE Get(data, "timestamp")
        valid      == vehicle_id # NoneId /\ latitude \notin {None, Some(0)}
                                          /\ longitude \notin {None, Some(0)}
    IN  IF gps_null \/ ~valid \/ ~db_up
        THEN [rows |-> rows, ok |-> FALSE]
        ELSE [rows |-> Append(rows, [vehicle_id |-> vehicle_id, latitude |-> latitude,
                                     longitude |-> longitude, timestamp |-> timestamp]),
              ok |-> TRUE]

\* store_gps_data(data): one row is inserted when vehicle_id, latitude and
\* longitude are there; every exception inside, a null gps and a refused
\* INSERT included, is caught and gives False.
store_gps_data(rows, db_up, data, t) ==
    LET vehicle_id == VehicleId(data)
        \* data.get("gps", {}): the dict, null, or {} when the key is absent
        gps        == IF "gps" \in DOMAIN data THEN data["gps"] ELSE Some(EmptyDict)
        gps_null   == IsNone(gps)
        latitude   == IF gps_null THEN None ELSE Get(Val(gps), "latitude")
        longitude  == IF gps_null THEN None ELSE Get(Val(gps), "longitude")
        timestamp  == IF IsNone(Get(data, "timestamp")) THEN Some(t)
                      ELSE Get(data, "timestamp")
        valid      == vehicle_id # NoneId /\ ~IsNone(latitude) /\ ~IsNone(longitude)
    IN  IF gps_null \/ ~valid \/ ~db_up
        THEN [rows |-> rows, ok |-> FALSE]
        ELSE [rows |-> Append(rows, [vehicle_id |-> vehicle_id, latitude |-> latitude,
                                     longitude |-> longitude, timestamp |-> timestamp]),
              ok |-> TRUE]

\* The broker responses of the location tracker's callback: ack when the row
\* is stored, nack with requeue when it is not or when json.loads raised.
lt_callback_responses(stored) ==
    IF stored THEN <<"ack">> ELSE <<"nack_requeue">>

\* callback of the location tracker's rabbitmq_consumer (gps_data queue)
lt_callback(body) ==
    /\ delivered < MaxDeliveries
    /\ \E st \in {IF ~IsJson(body) THEN [rows |-> gps_data, ok |-> FALSE]
                   ELSE store_gps_data(gps_data, gps_db_up, body, now)} :
           /\ gps_data' = st.rows
           /\ handled' = Handled("lt_callback", body,
                                 BrokerResponse(lt_callback_responses(st.ok)),
                                 lt_callback_responses(st.ok),
                                 NotProcessed(Globals, ~st.ok), now)
    /\ delivered' = delivered + 1
    /\ UNCHANGED <<vehicle_details, timers, now, connection, channel, brake_commands,
                   events, broker_up, db_faults, tracker>>
    /\ UNCHANGED <<consumer, agent_log, gps_db_up>>
    /\ UNCHANGED monitor_vars

\* GET /api/vehicle/<vehicle_id>/location: the row of the vehicle with the
\* largest id (rows are kept in order of their ids), or 404.
get_vehicle_location(rows, vehicle_id) ==
    LET own == {i \in 1..Len(rows) : rows[i].vehicle_id = vehicle_id}
    IN  IF own = {} THEN [status |-> "404"]
        ELSE LET result == rows[CHOOSE i \in own : \A j \in own : j <= i]
             IN  [status |-> "200",
                  body |-> [vehicle_id |-> result.vehicle_id,
                            gps |-> [latitude |-> result.latitude,
                                     longitude |-> result.longitude],
                            timestamp |-> result.timestamp]]

get_vehicle_location_request(vehicle_id) ==
    /\ handled' = [handler |-> "get_vehicle_location", vehicle_id |-> vehicle_id,
                   response |-> get_vehicle_location(gps_data, vehicle_id)]
    /\ UNCHANGED <<vehicle_details, timers, now, connection, channel, brake_commands,
                   events, broker_up, db_faults, tracker, delivered>>
    /\ UNCHANGED <<fleet_vars, monitor_vars>>

\* ------------------------------------------------------- location sender
\* The location sender as one process; connection and channel are its globals,
\* read as for the emergency-brake service.

\* The message receive_gps formats: timestamp defaults to the empty string.
SenderMessage(data) ==
    [timestamp |-> IF "timestamp" \in DOMAIN data THEN data["timestamp"] ELSE Some(""),
     vehicle_id |-> data["vehicle_id"],
     gps |-> data["gps"]]

\* What POST /gps gives: the answer, the connection afterwards, the messages
\* put on the gps_data queue and the calls of connect_to_rabbitmq.
GpsResult(response, conn, published, connects) ==
    [response |-> response, connection |-> conn, published |-> published,
     connects |-> connects]

\* receive_gps answering before it looked at the payload's keys.
receive_gps_unvalidated(conn, up, data) ==
    IF conn = "open" \/ up THEN GpsResult([code |-> 200, body |-> "sent"], "open", <<data>>, 0)
    ELSE GpsResult([code |-> 503, body |-> "Message queue unavailable"], "none", << >>, 1)

\* receive_gps(): POST /gps with the parsed payload data.
receive_gps(conn, up, data) ==
    IF ~IsJson(data)
    THEN GpsResult([code |-> 500, body |-> "Internal server error"], conn, << >>, 0)
    ELSE IF data = EmptyDict \/ "vehicle_id" \notin DOMAIN data \/ "gps" \notin DOMAIN data
    THEN GpsResult([code |-> 400, body |-> "Invalid data"], conn, << >>, 0)
    ELSE
    LET reconnect == conn # "open"
        c         == IF reconnect THEN connect_to_rabbitmq(up)
                     ELSE [connection |-> conn, ok |-> TRUE]
        connects  == IF reconnect THEN 1 ELSE 0
    IN  IF ~c.ok
        THEN GpsResult([code |-> 503, body |-> "Message queue unavailable"],
                       c.connection, << >>, connects)
        ELSE IF up
        THEN GpsResult([code |-> 200, body |-> "sent"], "open",
                       <<SenderMessage(data)>>, connects)
        ELSE GpsResult([code |-> 500, body |-> "Internal server error"], "closed",
                       << >>, connects)

receive_gps_request(data) ==
    LET r == receive_gps(connection, broker_up, data)
    IN  /\ handled' = [handler |-> "receive_gps", data |-> data, connection |-> connection,
                       broker_up |-> broker_up, result |-> r]
        /\ connection' = r.connection
        /\ channel' = r.connection
        /\ UNCHANGED <<vehicle_details, timers, now, brake_commands, events, broker_up,
                       db_faults, tracker, delivered>>
        /\ UNCHANGED <<fleet_vars, monitor_vars>>

\* GET /health of the location sender.
sender_health_check(conn) ==
    [status |-> "ok", rabbitmq |-> IF conn = "open" THEN "connected" ELSE "disconnected"]

sender_health_request ==
    /\ handled' = [handler |-> "sender_health", connection |-> connection,
                   response |-> sender_health_check(connection)]
    /\ UNCHANGED <<vehicle_details, timers, now, connection, channel, brake_commands,
                   events, broker_up, db_faults, tracker, delivered>>
    /\ UNCHANGED <<fleet_vars, monitor_vars>>

\* A Timer that ends without having run its function.
TimerFire_without_clearing(i) ==
    /\ i \in 1..Len(timers)
    /\ timers[i].due <= now
    /\ timers' = [j \in 1..(Len(timers) - 1) |-> IF j < i THEN timers[j] ELSE timers[j + 1]]
    /\ UNCHANGED <<vehicle_details, now, connection, channel, brake_commands, events,
                   broker_up, db_faults, tracker, delivered, handled>>
    /\ UNCHANGED <<fleet_vars, monitor_vars>>

\* A Timer started by eb_callback runs its lambda:
\* vehicle_details[vehicle_id].update({'brake': False})
TimerFire(i) ==
    /\ i \in 1..Len(timers)
    /\ timers[i].due <= now
    /\ vehicle_details' = [vehicle_details EXCEPT ![timers[i].vehicle_id].brake = FALSE]
    /\ timers' = [j \in 1..(Len(timers) - 1) |-> IF j < i THEN timers[j] ELSE timers[j + 1]]
    /\ UNCHANGED <<now, connection, channel, brake_commands, events, broker_up,
                   db_faults, tracker, delivered, handled>>
    /\ UNCHANGED <<fleet_vars, monitor_vars>>

\* The request GET /api/logs?page=page_arg&limit=limit
get_events_request(page_arg, limit) ==
    /\ handled' = [handler |-> "get_events", page_arg |-> page_arg, limit |-> limit,
                   response |-> get_events(events, page_arg, limit)]
    /\ UNCHANGED <<vehicle_details, timers, now, connection, channel, brake_commands,
                   events, broker_up, db_faults, tracker, delivered>>
    /\ UNCHANGED <<fleet_vars, monitor_vars>>

\* One second passes; a due Timer runs before the clock moves on.
Tick ==
    /\ now < MaxTime
    /\ \A i \in 1..Len(timers) : timers[i].due > now
    /\ now' = now + 1
    /\ UNCHANGED <<vehicle_details, timers, connection, channel, brake_commands,
                   events, broker_up, db_faults, tracker, delivered, handled>>
    /\ UNCHANGED <<fleet_vars, monitor_vars>>

\* ------------------------------------------------------- inputs

\* A processed-distance message of the distance monitor; rear holds the rear
\* keys that are present.
DistanceMessage(vehicle_id, front_distance, front_velocity, rear) ==
    Merge([vehicle_id |-> vehicle_id, front_distance_m |-> front_distance,
           front_velocity_mps |-> front_velocity], rear)
RearSamples == {EmptyDict, [rear_distance_m |-> Some(25), rear_velocity_mps |-> Some(4)]}
DistanceSamples ==
    {DistanceMessage("V1", d, r, rear) :
        d \in {None, Some(10), Some(70)}, r \in {None, Some(-6), Some(0)},
        rear \in RearSamples}
    \cup {DistanceMessage("V2", Some(10), Some(-6), EmptyDict),
          DistanceMessage("V2", Some(70), Some(0), EmptyDict),
          [front_distance_m |-> Some(30), front_velocity_mps |-> Some(-6)],
          EmptyDict, Unparsable}

\* Bodies on the brake_status queue: the statuses of the vehicle agents, noise.
StatusSamples == {BrakeStatus(v) : v \in Vehicles}
                 \cup {Unparsable, [status |-> "brake_applied"]}

\* Bodies on the events queue: log events of the services, a location, noise.
LogMessage(vehicle_id) ==
    [vehicle_id |-> vehicle_id, log_sender |-> "emergency_brake_service",
     log_message |-> "Received brake command"]
EventSamples == {LogMessage("V1"),
                 [vehicle_id |-> "V1", lat |-> Some(48), lng |-> Some(16)],
                 [log_message |-> "started"], Unparsable}

\* Answers of the location tracker.  In Fleet(gap) V1 drives north from 0 and
\* V2 drives south from gap, so each has the other in front at distance gap.
Location(vehicle_id, gps, delta) ==
    [vehicle_id |-> vehicle_id, gps |-> gps, position_delta |-> delta]
Fleet(gap) == [kind |-> "ok",
               locations |-> <<Location("V1", 0, 1), Location("V2", gap, -1)>>]
TrackerTimeout == [kind |-> "timeout"]
TrackerSamples ==
    {TrackerTimeout, [kind |-> "non200"],
     [kind |-> "badjson"],
     Fleet(100), Fleet(60),
     [kind |-> "ok", locations |-> <<[vehicle_id |-> "V1"], Location("V2", 60, -1)>>]}

\* Bodies on the location tracker's gps_data queue.
GpsMessage(vehicle_id, latitude, longitude) ==
    [vehicle_id |-> vehicle_id,
     gps |-> Some([latitude |-> latitude, longitude |-> longitude])]
GpsSamples == {GpsMessage("V1", Some(48), Some(16)),
               GpsMessage("V2", Some(48), None),
               [vehicle_id |-> "V1", gps |-> None],
               [gps |-> Some([latitude |-> Some(48), longitude |-> Some(16)])],
               Unparsable}

\* GPS messages for the location tracker alone: coordinates that are a
\* value (0 included), null or left out.
TrackerGpsSamples ==
    {GpsMessage(v, latitude, longitude) :
        v \in Vehicles, latitude \in {None, Some(0), Some(48)},
        longitude \in {None, Some(16), Some(26)}}
    \cup {[vehicle_id |-> "V1", gps |-> Some([latitude |-> Some(48)])],
          [vehicle_id |-> "V1", gps |-> None],
          [vehicle_id |-> "V1"],
          [gps |-> Some([latitude |-> Some(48), longitude |-> Some(16)])],
          Unparsable}

\* Payloads posted to the location sender's /gps.
SenderSamples ==
    GpsSamples \cup {EmptyDict, [wrong_key |-> Some("value")],
                     Merge(GpsMessage("V1", Some(48), Some(16)), [timestamp |-> Some("t1")])}

\* ------------------------------------------------------- specification
\* DEPLOYMENT_MODE and VEHICLE_ID_FILTER of the distance monitor.
Deployments == [mode : {"backend", "vehicle"}, filter : {NoneId, "V1"}]
Backend == [mode |-> "backend", filter |-> NoneId]

\* The central-director after startup: init_db and init_rabbitmq have
\* succeeded (the process exits otherwise) and nothing has been received.
StartedWith(dep, mon) ==
    /\ vehicle_details = EmptyDict
    /\ timers = << >>
    /\ now = 0
    /\ brake_commands = << >>
    /\ events = << >>
    /\ delivered = 0
    /\ agent_log = << >>
    /\ gps_data = << >>
    /\ deployment = dep
    /\ emergency_brake_state = NotBraking
    /\ last_readings = EmptyDict
    /\ monitored = mon
    /\ threads = EmptyDict
StartedAs(dep) == StartedWith(dep, NotMonitored)
Started == StartedAs(Backend)

\* The decision pipeline in every environment: whatever the tracker answers,
\* however many INSERTs fail, with the broker up or down and the loss of the
\* connection noticed or not.
Init ==
    /\ Started
    /\ connection \in {"open", "closed"}
    /\ channel = connection
    /\ consumer = IF connection = "open" THEN "consuming" ELSE "dead"
    /\ gps_db_up = TRUE
    /\ broker_up \in BOOLEAN
    /\ db_faults \in 0..MaxDbFaults
    /\ tracker \in TrackerSamples
    /\ handled = Handled("none", EmptyDict, "none", << >>, NotProcessed(Globals, FALSE), 0)

Next ==
    \/ \E data \in DistanceSamples : receive_processed_data(data)
    \/ \E body \in StatusSamples : eb_callback(body)
    \/ \E body \in EventSamples : event_callback(body)

Spec == Init /\ [][Next]_vars

\* The brake flag and its timers over time: brake status messages arrive on
\* the brake_status queue while the clock runs and INSERTs may fail.
InitBrake ==
    /\ Started
    /\ connection = "open"
    /\ channel = "open"
    /\ consumer = "consuming"
    /\ gps_db_up = TRUE
    /\ broker_up = TRUE
    /\ db_faults \in 0..MaxDbFaults
    /\ tracker = TrackerTimeout
    /\ handled = Handled("none", EmptyDict, "none", << >>, NotProcessed(Globals, FALSE), 0)

NextBrake ==
    \/ \E body \in StatusSamples : eb_callback(body)
    \/ \E i \in 1..MaxDeliveries : TimerFire(i)
    \/ Tick

SpecBrake == InitBrake /\ [][NextBrake]_vars

\* The cooldown to its end: brake status messages arrive early enough for
\* their Timers to fall due within the clock's range; time passes and a
\* Timer thread that is due runs.
BrakeStatusInTime(body) ==
    /\ now + BrakeTimerSeconds <= MaxTime
    /\ eb_callback(body)

NextCooldown ==
    \/ \E body \in StatusSamples : BrakeStatusInTime(body)
    \/ \E i \in 1..MaxDeliveries : TimerFire(i)
    \/ Tick

SpecCooldown ==
    /\ InitBrake
    /\ [][NextCooldown]_vars
    /\ WF_vars(Tick)
    /\ WF_vars(\E i \in 1..MaxDeliveries : TimerFire(i))

\* The manually acknowledging consumers: the central-director's two callbacks
\* and the location tracker's callback, with INSERTs failing or not.
InitConsumers ==
    /\ Started
    /\ connection = "open"
    /\ channel = "open"
    /\ consumer = "consuming"
    /\ broker_up = TRUE
    /\ db_faults \in 0..MaxDbFaults
    /\ gps_db_up \in BOOLEAN
    /\ tracker = TrackerTimeout
    /\ handled = Handled("none", EmptyDict, "none", << >>, NotProcessed(Globals, FALSE), 0)

NextConsumers ==
    \/ \E body \in StatusSamples : eb_callback(body)
    \/ \E body \in EventSamples : event_callback(body)
    \/ \E body \in GpsSamples : lt_callback(body)

SpecConsumers == InitConsumers /\ [][NextConsumers]_vars

\* The central-director while its broker connection comes and goes: requests
\* keep arriving over HTTP, queue messages only while the consumer thread runs.
InitReconnect ==
    /\ Started
    /\ connection = "open"
    /\ channel = "open"
    /\ consumer = "consuming"
    /\ broker_up = TRUE
    /\ db_faults \in 0..MaxDbFaults
    /\ gps_db_up = TRUE
    /\ tracker \in {TrackerTimeout, Fleet(100)}
    /\ handled = Handled("none", EmptyDict, "none", << >>, NotProcessed(Globals, FALSE), 0)

NextReconnect ==
    \/ ConnectionLost
    \/ BrokerRestored
    \/ \E data \in DistanceSamples : receive_processed_data(data)
    \/ \E body \in StatusSamples : eb_callback(body)
    \/ \E body \in EventSamples : event_callback(body)

SpecReconnect == InitReconnect /\ [][NextReconnect]_vars

\* The brake command on its way: the central-director publishes, the vehicle
\* agents consume the shared brake_commands queue, and the statuses they
\* publish come back on brake_status.
InitAgents ==
    /\ Started
    /\ connection = "open"
    /\ channel = "open"
    /\ consumer = "consuming"
    /\ broker_up = TRUE
    /\ db_faults = 0
    /\ gps_db_up = TRUE
    /\ tracker \in {TrackerTimeout, Fleet(100)}
    /\ handled = Handled("none", EmptyDict, "none", << >>, NotProcessed(Globals, FALSE), 0)

NextAgents ==
    \/ \E data \in DistanceSamples : receive_processed_data(data)
    \/ \E a \in Agents : brake_command_listener(a)
    \/ \E i \in 1..Len(agent_log) :
           agent_log[i].status /\ eb_callback(BrakeStatus(agent_log[i].vehicle_id))

SpecAgents == InitAgents /\ [][NextAgents]_vars

\* One emergency-brake service, started for V1: requests of the distance
\* monitor and commands of the central-director, with the broker and the
\* datamock in every condition.
BrakeServiceSamples ==
    DistanceSamples \cup {DistanceMessage(NoneId, Some(10), Some(-6), EmptyDict)}
CommandSamples ==
    {BrakeCommand(v, ReasonRule1, 0) : v \in Vehicles}
    \cup {[command |-> "brake"], [vehicle_id |-> "V1"], Unparsable}
ThisAgent == [vehicle_id |-> "V1", build |-> "emergency-brake.py"]

InitBrakeService ==
    /\ StartedAs(Backend)
    /\ connection \in {"none", "open", "closed"}
    /\ channel = connection
    /\ consumer = "dead"
    /\ broker_up \in BOOLEAN
    /\ db_faults = 0
    /\ gps_db_up = TRUE
    /\ tracker = TrackerTimeout
    /\ handled = Handled("none", EmptyDict, "none", << >>, NotProcessed(Globals, FALSE), 0)

NextBrakeService ==
    \/ \E data \in BrakeServiceSamples : brake_service_request(ThisAgent, data)
    \/ \E msg \in CommandSamples : brake_service_command(ThisAgent, msg)
    \/ BrokerRestored

SpecBrakeService == InitBrakeService /\ [][NextBrakeService]_vars

\* The location sender alone, its connection absent, open or closed, the
\* broker coming and going.
InitSender ==
    /\ StartedAs(Backend)
    /\ connection \in {"none", "open", "closed"}
    /\ channel = connection
    /\ consumer = "dead"
    /\ broker_up \in BOOLEAN
    /\ db_faults = 0
    /\ gps_db_up = TRUE
    /\ tracker = TrackerTimeout
    /\ handled = Handled("none", EmptyDict, "none", << >>, NotProcessed(Globals, FALSE), 0)

NextSender ==
    \/ \E data \in SenderSamples : receive_gps_request(data)
    \/ sender_health_request
    \/ ConnectionLost
    \/ BrokerRestored

SpecSender == InitSender /\ [][NextSender]_vars

\* GET /api/vehicles taken while /processed-data requests arrive.
SnapshotSamples ==
    {DistanceMessage("V1", Some(10), Some(-6), EmptyDict),
     DistanceMessage("V1", Some(70), Some(0), EmptyDict),
     DistanceMessage("V2", Some(30), Some(-4), EmptyDict)}

InitSnapshot ==
    /\ Started
    /\ connection = "open"
    /\ channel = "open"
    /\ consumer = "consuming"
    /\ broker_up = TRUE
    /\ db_faults = 0
    /\ gps_db_up = TRUE
    /\ tracker = TrackerTimeout
    /\ handled = Handled("none", EmptyDict, "none", << >>, NotProcessed(Globals, FALSE), 0)

NextSnapshot ==
    \/ \E data \in SnapshotSamples : processed_data_beside_snapshot(data)
    \/ snapshot_begins
    \/ snapshot_next
    \/ snapshot_reads

SpecSnapshot == InitSnapshot /\ [][NextSnapshot]_vars

\* A sensor message as the simulator sends it, here with a lidar front and a
\* camera rear reading; timestamp is None when the key holds null.
SensorMessage(vehicle_id, timestamp, front, rear) ==
    [vehicle_id |-> vehicle_id, timestamp |-> timestamp,
     ultrasonic |-> EmptyDict, radar |-> EmptyDict,
     lidar |-> [front_estimate_m |-> front],
     camera |-> [rear_estimate_m |-> rear]]
Stamps == {None} \cup {Some(t) : t \in 0..MaxStamp}
SensorSamples ==
    {SensorMessage("V1", timestamp, front, rear) :
        timestamp \in Stamps, front \in {None, Some(12), Some(24)},
        rear \in {None, Some(12)}}
    \cup {SensorMessage("V2", Some(1), Some(24), None),
          [vehicle_id |-> "V2", timestamp |-> Some(2),
           sensors |-> [radar |-> [object_distance_m |-> Some(12)]]],
          [timestamp |-> Some(1)],
          EmptyDict, Unparsable}

\* The distance monitor in either deployment mode, with and without a
\* vehicle filter, on every sequence of the sensor samples.
InitMonitor ==
    /\ \E dep \in Deployments : StartedAs(dep)
    /\ connection = "open"
    /\ channel = "open"
    /\ consumer = "consuming"
    /\ broker_up = TRUE
    /\ db_faults = 0
    /\ gps_db_up = TRUE
    /\ tracker = TrackerTimeout
    /\ handled = Handled("none", EmptyDict, "none", << >>, NotProcessed(Globals, FALSE), 0)

NextMonitor ==
    \/ \E body \in SensorSamples : process_sensor_message(body)
    \/ \E data \in SensorSamples : receive_sensor_data(data)

SpecMonitor == InitMonitor /\ [][NextMonitor]_vars

\* The end-to-end scenario: V1 reports front distances of 45 m, 38 m and 30 m
\* at 1-second intervals and 25 m five seconds later.  The backend distance
\* monitor consumes each sample when it is reported and posts the processed
\* message to the central-director, which handles it before the next sample.
ScenarioSamples == <<SensorMessage("V1", Some(0), Some(45), None),
                     SensorMessage("V1", Some(1), Some(38), None),
                     SensorMessage("V1", Some(2), Some(30), None),
                     SensorMessage("V1", Some(7), Some(25), None)>>

\* how many samples of the scenario the distance monitor has consumed
Reported ==
    Cardinality({i \in 1..Len(ScenarioSamples) :
                    /\ "V1" \in DOMAIN last_readings
                    /\ Val(ScenarioSamples[i].timestamp) <= last_readings["V1"].timestamp})

ReportSample ==
    /\ Reported < Len(ScenarioSamples)
    /\ delivered = Reported
    /\ now = Val(ScenarioSamples[Reported + 1].timestamp)
    /\ process_sensor_message(ScenarioSamples[Reported + 1])

ForwardedSample ==
    /\ delivered < Reported
    /\ processed_data_request(Val(monitored.sent))

InitScenario ==
    /\ Started
    /\ connection \in {"open", "closed"}
    /\ channel = connection
    /\ consumer = "consuming"
    /\ broker_up = TRUE
    /\ db_faults = 0
    /\ gps_db_up = TRUE
    /\ tracker \in TrackerSamples
    /\ handled = Handled("none", EmptyDict, "none", << >>, NotProcessed(Globals, FALSE), 0)

NextScenario == ReportSample \/ ForwardedSample \/ Tick

SpecScenario == InitScenario /\ [][NextScenario]_vars

\* Sensor fusion on every combination of readings: each reading's key absent,
\* null or a value (distinct values, so that a mean tells which readings went
\* into it), a group without keys sent empty or left out.
\* Absent marks a key that the group does not have.
Absent == Some(-1)
Opt(values) == {Absent, None} \cup {Some(v) : v \in values}
SensorGroup(k1, r1, k2, r2) ==
    [k \in {k \in {k1, k2} : (IF k = k1 THEN r1 ELSE r2) # Absent} |->
        IF k = k1 THEN r1 ELSE r2]
SensorData(uf, ur, ro, cf, cr, lf, lr, omit_empty) ==
    LET groups == [ultrasonic |-> SensorGroup("front_distance_cm", uf, "rear_distance_cm", ur),
                   radar      |-> SensorGroup("object_distance_m", ro, "object_distance_m", ro),
                   camera     |-> SensorGroup("front_estimate_m", cf, "rear_estimate_m", cr),
                   lidar      |-> SensorGroup("front_estimate_m", lf, "rear_estimate_m", lr)]
    IN  [k \in {k \in DOMAIN groups : ~omit_empty \/ groups[k] # EmptyDict} |-> groups[k]]
FusionSamples ==
    {SensorData(uf, ur, ro, cf, cr, lf, lr, omit_empty) :
        uf \in Opt({1200}), ur \in Opt({2400}), ro \in Opt({24}), cf \in Opt({48}),
        cr \in Opt({12}), lf \in Opt({0, 96}), lr \in Opt({0}), omit_empty \in BOOLEAN}

Fuse ==
    /\ monitored.result = "none"
    /\ LET fused == calculate_distance_meters(monitored.data)
       IN  monitored' = [monitored EXCEPT !.result = "fused", !.front = fused.front,
                                          !.rear = fused.rear]
    /\ UNCHANGED <<deployment, emergency_brake_state, last_readings, threads>>
    /\ UNCHANGED <<vehicle_details, timers, now, connection, channel, brake_commands,
                   events, broker_up, db_faults, tracker, delivered, handled>>
    /\ UNCHANGED fleet_vars

InitFusion ==
    /\ \E data \in FusionSamples :
           StartedWith(Backend, [NotMonitored EXCEPT !.data = data])
    /\ connection = "open"
    /\ channel = "open"
    /\ consumer = "consuming"
    /\ broker_up = TRUE
    /\ db_faults = 0
    /\ gps_db_up = TRUE
    /\ tracker = TrackerTimeout
    /\ handled = Handled("none", EmptyDict, "none", << >>, NotProcessed(Globals, FALSE), 0)

NextFusion == Fuse

SpecFusion == InitFusion /\ [][NextFusion]_vars

\* Two requests for one vehicle in the distance monitor of a vehicle.
ConcurrentSamples ==
    {SensorMessage("V1", Some(t), Some(front), None) :
        t \in 0..MaxStamp, front \in {12, 24}}

InitConcurrent ==
    /\ StartedAs([mode |-> "vehicle", filter |-> NoneId])
    /\ connection = "open"
    /\ channel = "open"
    /\ consumer = "consuming"
    /\ broker_up = TRUE
    /\ db_faults = 0
    /\ gps_db_up = TRUE
    /\ tracker = TrackerTimeout
    /\ handled = Handled("none", EmptyDict, "none", << >>, NotProcessed(Globals, FALSE), 0)

NextConcurrent ==
    \/ \E th \in RequestThreads, data \in ConcurrentSamples : request_begins(th, data)
    \/ \E th \in RequestThreads : cv_read(th)
    \/ \E th \in RequestThreads : cv_write(th)

SpecConcurrent == InitConcurrent /\ [][NextConcurrent]_vars

\* The event log paged: a log of N events, the details of each naming its
\* place in the log, asked for with every page and limit.
StoredEvents(n) == [i \in 1..n |-> Event(i, "log", i)]

InitLogs ==
    /\ Started
    /\ connection = "open"
    /\ channel = "open"
    /\ consumer = "consuming"
    /\ broker_up = TRUE
    /\ db_faults = 0
    /\ gps_db_up = TRUE
    /\ tracker = TrackerTimeout
    /\ handled = Handled("none", EmptyDict, "none", << >>, NotProcessed(Globals, FALSE), 0)

StoreEvents ==
    /\ handled.handler = "none"
    /\ events = << >>
    /\ \E n \in (1..MaxEvents) \cup {LargeLog} : events' = StoredEvents(n)
    /\ UNCHANGED <<vehicle_details, timers, now, connection, channel, brake_commands,
                   broker_up, db_faults, tracker, delivered, handled>>
    /\ UNCHANGED <<fleet_vars, monitor_vars>>

NextLogs ==
    \/ StoreEvents
    \/ \E page_arg \in (-1)..MaxPage, limit \in (0..MaxLimit) \cup {DefaultLimit} :
           get_events_request(page_arg, limit)

SpecLogs == InitLogs /\ [][NextLogs]_vars

\* The location tracker: GPS messages consumed and vehicle locations asked for.
InitTracker ==
    /\ Started
    /\ connection = "open"
    /\ channel = "open"
    /\ consumer = "consuming"
    /\ broker_up = TRUE
    /\ db_faults = 0
    /\ gps_db_up \in BOOLEAN
    /\ tracker = TrackerTimeout
    /\ handled = Handled("none", EmptyDict, "none", << >>, NotProcessed(Globals, FALSE), 0)

NextTracker ==
    \/ \E body \in TrackerGpsSamples : lt_callback(body)
    \/ \E vehicle_id \in Vehicles : get_vehicle_location_request(vehicle_id)

SpecTracker == InitTracker /\ [][NextTracker]_vars

\* The threshold rules of both decision sites on every pair of a distance in
\* 0..MaxDist and a rate in -MaxRate..MaxRate: the central-director's
\* evaluate_rules with no tracker distance to be had (rules 1-2 decide) and
\* the emergency-brake service's /processed-data decision.
Evaluate(d, r) ==
    /\ \E ev \in {evaluate_rules(Globals, [vehicle_id |-> "V1", distance |-> Some(d),
                                            delta |-> Some(r)])} :
           handled' = [handler |-> "rules", distance |-> d, delta |-> r,
                       cd |-> [trigger |-> ev.trigger, reason |-> ev.reason,
                               raised |-> ev.raised],
                       eb |-> eb_evaluate(DistanceMessage("V1", Some(d), Some(r),
                                                          EmptyDict))]
    /\ UNCHANGED <<vehicle_details, timers, now, connection, channel, brake_commands,
                   events, broker_up, db_faults, tracker, delivered>>
    /\ UNCHANGED <<fleet_vars, monitor_vars>>

NextRules == \E d \in 0..MaxDist, r \in (-MaxRate)..MaxRate : Evaluate(d, r)

InitRules == InitBrake /\ db_faults = 0

SpecRules == InitRules /\ [][NextRules]_vars

\* ------------------------------------------------------- claims
\* C1: two triggering decisions for one vehicle within 10 s result
\* in exactly one BrakeCommand, so no two published commands of one vehicle
\* are less than 10 s apart.
C1_Debounced ==
    \A i, j \in 1..Len(brake_commands) :
        (i < j /\ brake_commands[i].vehicle_id = brake_commands[j].vehicle_id)
            => brake_commands[j].timestamp - brake_commands[i].timestamp >= 10

\* C2: at every moment a vehicle's braking flag is true exactly when the
\* clock is before the flag's expiry, 10 s after the flag was last set.  The
\* expiry moments are the due times of the Timers started when the flag was
\* set; the moment is taken once every Timer that is due has run.
C2_FlagIffBeforeExpiry ==
    (\A i \in 1..Len(timers) : timers[i].due > now) =>
        \A v \in DOMAIN vehicle_details :
            vehicle_details[v].brake <=>
                \E i \in 1..Len(timers) : timers[i].vehicle_id = v /\ now < timers[i].due

\* C3: a BrakeStatus delivered a second time, with no other delivery in
\* between, leaves the
\* vehicle's braking flag and the moment at which the flag will be cleared
\* (the earliest due time of the vehicle's Timers, if any) as they were.
C3_RedeliveryIdempotent ==
    [][(/\ delivered' = delivered + 1
        /\ handled.handler = "eb_callback" /\ handled'.handler = "eb_callback"
        /\ handled'.data = handled.data
        /\ VehicleId(handled.data) \in Vehicles)
           => LET v == VehicleId(handled.data)
                  Due(tm) == {tm[i].due : i \in {k \in 1..Len(tm) : tm[k].vehicle_id = v}}
                  Clear(tm) == IF Due(tm) = {} THEN None ELSE Some(SetMin(Due(tm)))
              IN  /\ vehicle_details'[v].brake = vehicle_details[v].brake
                  /\ Clear(timers') = Clear(timers)]_vars

\* C4: once the BrakeCommand of a triggered decision is published
\* the vehicle's braking flag is true, before any BrakeStatus is received.
C4_FlagSetByPublish ==
    (handled.published /\ VehicleId(handled.data) \in DOMAIN vehicle_details)
        => vehicle_details[VehicleId(handled.data)].brake

\* C5: for every non-null (distance d, rate r) both evaluate_rules (rules 1-2)
\* and the emergency-brake /processed-data decision trigger exactly when
\* (d < 20 and r < -3) or (d < 40 and r < -5), the critical reason is given
\* whenever the first conjunct holds and the warning reason otherwise; the
\* comparisons are strict.
C5_ThresholdRules ==
    handled.handler = "rules" =>
        LET d == handled.distance
            r == handled.delta
            critical == d < 20 /\ r < -3
            warning  == d < 40 /\ r < -5
        IN  /\ handled.cd.trigger = (critical \/ warning)
            /\ handled.eb.danger = (critical \/ warning)
            /\ ~handled.cd.raised
            /\ handled.eb.code = 200
            /\ critical => handled.cd.reason = ReasonRule1 /\ handled.eb.reason = ReasonCritical
            /\ (warning /\ ~critical) =>
                   handled.cd.reason = ReasonRule2 /\ handled.eb.reason = ReasonWarning
            /\ (d = 20 /\ r = -3) => ~handled.cd.trigger /\ ~handled.eb.danger

\* C5 witness: just inside rule 1 (19 m, -4 m/s) both sites have triggered
\* with the critical reason.
C5_Witness ==
    /\ handled.handler = "rules"
    /\ handled.distance = 19 /\ handled.delta = -4
    /\ handled.cd.trigger /\ handled.eb.danger
    /\ handled.cd.reason = ReasonRule1

\* C6: a processed-distance message whose fused distance or fused rate is
\* null does not trigger under rules 1-2 and no BrakeCommand is published
\* under them, whatever its other fields hold.
C6_NullInputNotTriggered ==
    (/\ handled.branch = "distance_monitor"
     /\ IsNone(Get(handled.data, "front_distance_m"))
            \/ IsNone(Get(handled.data, "front_velocity_mps")))
        => ~(handled.reason \in {ReasonRule1, ReasonRule2}
                 /\ (handled.trigger \/ handled.published))

\* C7: two processed-distance messages that differ only in their rear-facing
\* fields, handled one after the other in the same environment (no INSERT
\* fails), yield the same trigger outcome and reason.
C7_RearFieldsIgnored ==
    [][(/\ delivered' = delivered + 1
        /\ handled.branch = "distance_monitor" /\ handled'.branch = "distance_monitor"
        /\ db_faults = 0 /\ handled.saves_failed = {} /\ handled'.saves_failed = {}
        /\ \A k \in {"vehicle_id", "front_distance_m", "front_velocity_mps"} :
               /\ k \in DOMAIN handled.data <=> k \in DOMAIN handled'.data
               /\ k \in DOMAIN handled.data => handled'.data[k] = handled.data[k])
           => /\ handled'.trigger = handled.trigger
              /\ handled'.reason = handled.reason]_vars

\* C8: when rules 1-2 do not trigger and the tracker-derived distance is
\* available, the decision is triggered exactly when that distance and the
\* fused distance are more than 20 m apart, and a distance_deviation event
\* is then the event appended last before the brake events.
C8_DeviationRule ==
    (/\ handled.branch = "distance_monitor"
     /\ ~(handled.reason \in {ReasonRule1, ReasonRule2})
     /\ handled.lt_asked /\ ~IsNone(handled.lt_distance))
        => LET d == Val(Get(handled.data, "front_distance_m"))
               deviates == Abs(Val(handled.lt_distance) - d) > 20
           IN  /\ handled.trigger = deviates
               /\ deviates => \E i \in 1..Len(events) :
                                  events[i].event_type = "distance_deviation"

\* C9: a location-tracker call that times out, answers non-200 or answers
\* with a malformed body or a missing field gives no tracker distance and
\* raises nothing: the decision is not triggered and the message is answered
\* 200 or acknowledged.
C9_TrackerFailureContained ==
    (handled.lt_asked /\ handled.lt_failure # "none")
        => /\ IsNone(handled.lt_distance)
           /\ ~handled.raised
           /\ ~handled.trigger
           /\ handled.response \in {"200", "ack"}

\* C10: whenever the rule conditions for a trigger hold on a handled
\* processed-distance message (rule 1 or 2 on the distance and the delta, or a
\* tracker distance more than 20 m from the fused one) and the broker is
\* reachable, a BrakeCommand is published, whatever the event store does.
C10_TriggerSurvivesStoreFailure ==
    (/\ handled.branch = "distance_monitor"
     /\ broker_up
     /\ ~IsNone(Get(handled.data, "front_distance_m"))
     /\ LET d == Val(Get(handled.data, "front_distance_m"))
            delta == message_delta(handled.data)
        IN  \/ d < 20 /\ delta < -3
            \/ d < 40 /\ delta < -5
            \/ /\ handled.lt_asked /\ ~IsNone(handled.lt_distance)
               /\ Abs(Val(handled.lt_distance) - d) > 20)
        => /\ handled.published
           /\ brake_commands # << >>
           /\ brake_commands[Len(brake_commands)].vehicle_id = VehicleId(handled.data)

\* C11: a malformed message (not JSON, or JSON without the expected fields)
\* delivered to the central-director's brake_status or events consumer is
\* acknowledged, never negatively acknowledged with requeue.
C11_MalformedAcknowledged ==
    (/\ handled.handler \in {"eb_callback", "event_callback"}
     /\ ~IsJson(handled.data) \/ handled.branch = "unknown_message")
        => handled.acks = <<"ack">>

\* C12: every delivery to a manually acknowledging consumer gets exactly one
\* broker response: an ack when processing succeeded (nothing raised, every
\* INSERT of the handler went through, the location tracker stored its row),
\* a nack with requeue when it failed.
C12_OneBrokerResponse ==
    handled.handler \in {"eb_callback", "event_callback", "lt_callback"} =>
        /\ Len(handled.acks) = 1
        /\ handled.acks[1] \in {"ack", "nack_requeue"}
        /\ handled.acks[1] = "ack" <=> ~handled.raised
        /\ handled.acks[1] = "ack" => handled.saves_failed = {}
        /\ (handled.handler = "lt_callback" /\ handled.acks[1] = "ack") =>
               /\ gps_data # << >>
               /\ gps_data[Len(gps_data)].vehicle_id = VehicleId(handled.data)

\* C12 witness: a second delivery to the brake_status consumer failed in
\* processing and was answered with the one nack.
C12_Witness ==
    /\ delivered = 2
    /\ handled.handler = "eb_callback"
    /\ handled.raised
    /\ handled.acks = <<"nack_requeue">>

\* C13: when the central-director has lost its broker connection and the
\* broker is reachable again, consuming of brake_status and events resumes:
\* in every such state a step that brings the consumer back is possible.
C13_ConsumingResumes ==
    (consumer = "dead" /\ broker_up)
        => ENABLED (NextReconnect /\ consumer' = "consuming")

\* C14: for every triggered decision trigger_emergency_break either publishes
\* the BrakeCommand of the vehicle or records the failure as an 'error' event.
C14_PublishedOrErrorRecorded ==
    [][(delivered' = delivered + 1 /\ handled'.trigger)
           => \/ /\ Len(brake_commands') = Len(brake_commands) + 1
                 /\ brake_commands'[Len(brake_commands')].vehicle_id
                        = VehicleId(handled'.data)
              \/ \E i \in (Len(events) + 1)..Len(events') :
                     events'[i].event_type = "error"]_vars

\* C15: every BrakeCommand taken from the brake_commands queue was taken by
\* the agent of the vehicle it names, was applied by it (its datamock
\* accepted the brake signal) and was answered with a brake_applied status;
\* none is consumed and discarded by the agent of another vehicle or lost
\* when the agent's processing fails.
C15_CommandReachesOwnAgent ==
    \A i \in 1..Len(agent_log) :
        /\ agent_log[i].agent = agent_log[i].vehicle_id
        /\ agent_log[i].outcome = "applied"
        /\ agent_log[i].status

\* The rate calculate_velocity is to return for one side: the difference to
\* the sample that arrived before, over the elapsed seconds, when both
\* samples have the side and time has passed; null otherwise.
C17_Rate(before, vehicle_id, side, timestamp, which) ==
    IF vehicle_id \notin DOMAIN before THEN None
    ELSE LET previous == before[vehicle_id]
             elapsedSeconds == timestamp - previous.timestamp
         IN  IF IsNone(previous[which]) \/ IsNone(side) \/ elapsedSeconds <= 0 THEN None
             ELSE Some(Quot(Val(side) - Val(previous[which]), elapsedSeconds))

\* C17: for every sample that reaches calculate_velocity, and for the front
\* and the rear side independently, the rate returned (and forwarded) is null
\* for the vehicle's first sample, and otherwise (current - previous) /
\* elapsedSeconds exactly when the sample that arrived immediately before and
\* the current one both have the side and elapsedSeconds > 0, null otherwise.
C17_VelocityEstimation ==
    monitored.result = "processed" =>
        LET timestamp == Val(monitored.data.timestamp)
            vehicle_id == monitored.data.vehicle_id
        IN  /\ monitored.velocity.front_mps =
                   C17_Rate(monitored.before, vehicle_id, monitored.front, timestamp, "front")
            /\ monitored.velocity.rear_mps =
                   C17_Rate(monitored.before, vehicle_id, monitored.rear, timestamp, "rear")
            /\ Val(monitored.sent).front_velocity_mps = monitored.velocity.front_mps
            /\ Val(monitored.sent).rear_velocity_mps = monitored.velocity.rear_mps

\* A front distance 12 m shorter than 2 s before gives -6 m/s; the rear rate
\* is null because the sample before had no rear distance.
C17_Witness ==
    /\ monitored.result = "processed"
    /\ "V1" \in DOMAIN monitored.before
    /\ monitored.data.vehicle_id = "V1"
    /\ monitored.velocity.front_mps = Some(-6)
    /\ ~IsNone(monitored.rear)
    /\ monitored.velocity.rear_mps = None

\* C18: after any sequence of samples, whatever the order of their
\* timestamps, the reading stored for a vehicle (front, rear, timestamp) is
\* the sample of that vehicle that arrived last.
C18_LastArrivalStored ==
    last_readings = monitored.arrived

\* A sample has been stored over one that arrived earlier with a later
\* timestamp.
C18_Witness ==
    /\ monitored.result = "processed"
    /\ "V1" \in DOMAIN monitored.before
    /\ monitored.data.vehicle_id = "V1"
    /\ monitored.before["V1"].timestamp > Val(monitored.data.timestamp)
    /\ last_readings["V1"] = Reading3(monitored.front, monitored.rear,
                                      Val(monitored.data.timestamp))
    /\ last_readings["V1"] # monitored.before["V1"]

\* C16: once the four samples of the scenario (45 m, 38 m, 30 m at 1-second
\* intervals, 25 m five seconds later) have gone through the distance monitor
\* and the central-director, exactly one BrakeCommand has been published, it
\* is for V1, and the last sample published none.
C16_ScenarioOneCommand ==
    delivered = Len(ScenarioSamples) =>
        /\ Len(brake_commands) = 1
        /\ brake_commands[1].vehicle_id = "V1"
        /\ ~handled.published

\* The readings that contribute to a side: sensor group, key, and how many
\* of the reading's units make a metre.
C19_FrontSources == {<<"ultrasonic", "front_distance_cm", CmPerMetre>>,
                     <<"radar", "object_distance_m", 1>>,
                     <<"camera", "front_estimate_m", 1>>,
                     <<"lidar", "front_estimate_m", 1>>}
C19_RearSources == {<<"ultrasonic", "rear_distance_cm", CmPerMetre>>,
                    <<"camera", "rear_estimate_m", 1>>,
                    <<"lidar", "rear_estimate_m", 1>>}
C19_NonNull(data, sources) ==
    {src \in sources : /\ src[1] \in DOMAIN data
                       /\ src[2] \in DOMAIN data[src[1]]
                       /\ data[src[1]][src[2]] # None}
RECURSIVE C19_Total(_, _)
C19_Total(data, srcs) ==
    IF srcs = {} THEN 0
    ELSE LET src == CHOOSE x \in srcs : TRUE
         IN  Quot(Val(data[src[1]][src[2]]), src[3]) + C19_Total(data, srcs \ {src})
C19_Mean(data, sources) ==
    LET srcs == C19_NonNull(data, sources)
    IN  IF srcs = {} THEN None
        ELSE Some(Quot(C19_Total(data, srcs), Cardinality(srcs)))

\* C19: for every combination of present, absent and null readings,
\* calculate_distance_meters returns for each side the arithmetic mean of
\* exactly the non-null readings of that side (ultrasonic in cm over 100,
\* radar, camera and lidar in metres for the front; ultrasonic, camera and
\* lidar for the rear), and null, not zero, for a side without any.
C19_FusionIsMeanOfNonNull ==
    monitored.result = "fused" =>
        /\ monitored.front = C19_Mean(monitored.data, C19_FrontSources)
        /\ monitored.rear = C19_Mean(monitored.data, C19_RearSources)

\* Fused: front from ultrasonic, radar and a lidar reading of 0 m with the
\* camera's null left out, (12 + 24 + 0) / 3 = 12; the rear without any
\* non-null reading is null.
C19_Witness ==
    /\ monitored.result = "fused"
    /\ C19_NonNull(monitored.data, C19_FrontSources) =
           C19_FrontSources \ {<<"camera", "front_estimate_m", 1>>}
    /\ "camera" \in DOMAIN monitored.data
    /\ "front_estimate_m" \in DOMAIN monitored.data.camera
    /\ monitored.data.lidar.front_estimate_m = Some(0)
    /\ monitored.front = Some(12)
    /\ monitored.rear = None

\* What the two requests give when the first runs to its end before the
\* second starts, from the empty last_readings of a started service.
C20_Serial(first, second) ==
    LET a == threads[first].data
        b == threads[second].data
        ca == calculate_velocity(EmptyDict, a.vehicle_id, ThreadFused(first).front,
                                 ThreadFused(first).rear, Val(a.timestamp))
        cb == calculate_velocity(ca.last_readings, b.vehicle_id, ThreadFused(second).front,
                                 ThreadFused(second).rear, Val(b.timestamp))
    IN  /\ last_readings = cb.last_readings
        /\ threads[first].velocity = ca.velocity
        /\ threads[second].velocity = cb.velocity

\* C20: when two requests for the same vehicle have been processed
\* concurrently, the stored reading and the two computed rates are those of
\* one of the two serial orders of the requests.
C20_SerialOutcome ==
    (DOMAIN threads = RequestThreads /\ \A th \in RequestThreads : threads[th].pc = "done")
        => \/ C20_Serial("t1", "t2")
           \/ C20_Serial("t2", "t1")

\* C22: after the central-director has handled a processed-distance message
\* that names a vehicle, the vehicle's entry holds the message's front
\* distance, rear distance, front rate and rear rate in front_distance,
\* rear_distance, front_distance_change and rear_distance_change.
C22_EntryHoldsMessage ==
    (/\ handled.handler \in {"receive_processed_data", "eb_callback", "event_callback"}
     /\ handled.branch = "distance_monitor"
     /\ VehicleId(handled.data) # NoneId)
        => LET entry == vehicle_details[VehicleId(handled.data)]
           IN  /\ entry.front_distance = Get(handled.data, "front_distance_m")
               /\ entry.rear_distance = Get(handled.data, "rear_distance_m")
               /\ entry.front_distance_change = Get(handled.data, "front_velocity_mps")
               /\ entry.rear_distance_change = Get(handled.data, "rear_velocity_mps")

\* C23: no message removes a vehicle from the fleet state, and a handled
\* message that names a vehicle leaves the fleet state with an entry for it.
C23_EntryCreatedNeverRemoved ==
    [][/\ DOMAIN vehicle_details \subseteq DOMAIN vehicle_details'
       /\ (/\ delivered' = delivered + 1
           /\ IsJson(handled'.data)
           /\ VehicleId(handled'.data) # NoneId)
              => VehicleId(handled'.data) \in DOMAIN vehicle_details']_vars

\* C25: the event log is append-only.  Every step keeps the stored events as
\* they are and in place, a handler adds one event per save_event that
\* returned, each with an id greater than every id before it, and the count
\* the health probe reports never decreases.
C25_AppendOnly ==
    [][/\ Len(events') >= Len(events)
       /\ SubSeq(events', 1, Len(events)) = events
       /\ \A i \in (Len(events) + 1)..Len(events') :
             \A j \in 1..(i - 1) : events'[i].id > events'[j].id
       /\ delivered' = delivered + 1 => Len(events') = Len(events) + handled'.saves
       /\ health_check(events').events_logged >= health_check(events).events_logged]_vars

\* A handler has saved an event into a log that already held one.
C25_Witness ==
    /\ Len(events) >= 2
    /\ handled.saves >= 1
    /\ events[Len(events)].id = Len(events)

\* C24: for N stored events, a limit L >= 1 and a requested page p (below 1
\* taken as 1), GET /api/logs returns the events at the places
\* (p-1)*L+1 .. min(p*L, N) of the newest-first order, that is
\* min(L, max(0, N-(p-1)*L)) events, with total_count = N, total_pages =
\* ceil(N/L), has_next = (p < total_pages) and has_prev = (p > 1).
C24_Pagination ==
    (handled.handler = "get_events" /\ handled.limit >= 1) =>
        LET N == Len(events)
            L == handled.limit
            p == IF handled.page_arg < 1 THEN 1 ELSE handled.page_arg
            count == Min(L, Max(0, N - (p - 1) * L))
            ceil == CHOOSE t \in 0..N : t * L >= N /\ (t = 0 \/ (t - 1) * L < N)
            r == handled.response
        IN  /\ r.status = "200"
            /\ Len(r.events) = count
            /\ \A k \in 1..count :
                  \* the k-th event returned is the ((p-1)*L+k)-th newest
                  r.events[k].details = events[N + 1 - ((p - 1) * L + k)].details
            /\ r.pagination.page = p
            /\ r.pagination.total_count = N
            /\ r.pagination.total_pages = ceil
            /\ r.pagination.has_next = (p < ceil)
            /\ r.pagination.has_prev = (p > 1)

\* 250 stored events and limit 100: page 3 returns the 50 oldest events, the
\* last of them the first ever stored, has_next false and has_prev true.
C24_Witness ==
    /\ handled.handler = "get_events"
    /\ Len(events) = LargeLog
    /\ handled.limit = DefaultLimit
    /\ handled.page_arg = 3
    /\ Len(handled.response.events) = LargeLog - 2 * DefaultLimit
    /\ handled.response.events[LargeLog - 2 * DefaultLimit].details = 1
    /\ ~handled.response.pagination.has_next
    /\ handled.response.pagination.has_prev

\* vehicle_id, latitude and longitude are all present and not null
C29_AllPresent(data) ==
    /\ "vehicle_id" \in DOMAIN data
    /\ "gps" \in DOMAIN data
    /\ data.gps # None
    /\ "latitude" \in DOMAIN Val(data.gps) /\ Val(data.gps).latitude # None
    /\ "longitude" \in DOMAIN Val(data.gps) /\ Val(data.gps).longitude # None

C30_LocationWithDelta ==
    handled.handler = "get_vehicle_location" =>
        LET own == {i \in 1..Len(gps_data) : gps_data[i].vehicle_id = handled.vehicle_id}
            last == CHOOSE i \in own : \A j \in own : j <= i
            before == own \ {last}
            prev == CHOOSE i \in before : \A j \in before : j <= i
            r == handled.response
        IN  IF own = {} THEN r.status = "404"
            ELSE /\ r.status = "200"
                 /\ r.body.gps.latitude = gps_data[last].latitude
                 /\ r.body.gps.longitude = gps_data[last].longitude
                 /\ "position_delta" \in DOMAIN r.body
                 /\ r.body.position_delta =
                        IF before = {} THEN [latitude |-> 0, longitude |-> 0]
                        ELSE [latitude |-> Val(gps_data[last].latitude)
                                              - Val(gps_data[prev].latitude),
                              longitude |-> Val(gps_data[last].longitude)
                                               - Val(gps_data[prev].longitude)]

\* C26: every /processed-data request of the emergency-brake service that
\* triggers, and every brake command it processes, sends exactly one brake
\* signal to the datamock and then publishes exactly one brake_applied status
\* for that vehicle; a safe request and a request answered 400 do neither.
C26_SignalThenStatus ==
    \A i \in 1..Len(agent_log) :
        IF agent_log[i].danger
        THEN /\ Len(agent_log[i].signals) = 1
             /\ agent_log[i].published = <<BrakeStatus(agent_log[i].vehicle_id)>>
        ELSE /\ agent_log[i].signals = << >>
             /\ agent_log[i].published = << >>

\* C27: a triggering /processed-data request whose brake signal raises an
\* error that is not a RequestException is answered 500 (Internal server
\* error) and publishes no brake_applied status.
C27_UnexpectedSignalError ==
    \A i \in 1..Len(agent_log) :
        (/\ agent_log[i].handler = "processed_data"
         /\ agent_log[i].danger
         /\ agent_log[i].post = "other_exception")
            => /\ agent_log[i].status = "500"
               /\ agent_log[i].published = << >>

\* A triggering request met the unexpected error while the service held an
\* open connection to a reachable broker, so the status could have gone out.
C27_Witness ==
    \E i \in 1..Len(agent_log) :
        /\ agent_log[i].handler = "processed_data"
        /\ agent_log[i].danger
        /\ agent_log[i].post = "other_exception"
        /\ agent_log[i].connection = "open"
        /\ agent_log[i].broker_up
        /\ agent_log[i].status = "500"

\* C28: POST /gps of the location sender.  A payload lacking vehicle_id or
\* gps gets 400, nothing is published and no reconnect is attempted.
\* Otherwise, with the connection open, or closed and one reconnect
\* succeeding, exactly one message is published and the answer is 200 sent;
\* with the connection closed and the reconnect failing nothing is published
\* and the answer is 503 Message queue unavailable.  GET /health reports
\* connected exactly when a connection exists and is open.
C28_Lacking(data) == "vehicle_id" \notin DOMAIN data \/ "gps" \notin DOMAIN data
C21_PointInTimeSnapshot ==
    Snapshot.pc = "done"
        => /\ Snapshot.response = "200"
           /\ \A i \in 1..Len(Snapshot.vehicles) :
                  Snapshot.vehicles[i].entry \in Snapshot.moments[Snapshot.vehicles[i].vehicle_id]

\* C21, the second half alone: a snapshot that succeeded returns only
\* entries the vehicle had at one single moment.
C21_NoTornEntry ==
    (Snapshot.pc = "done" /\ Snapshot.response = "200")
        => \A i \in 1..Len(Snapshot.vehicles) :
               Snapshot.vehicles[i].entry \in Snapshot.moments[Snapshot.vehicles[i].vehicle_id]

\* C34: a sensor message with a vehicle_id and a missing or unparsable
\* timestamp is still processed, with the current time as its timestamp: it
\* is fused, stored as the vehicle's last reading and forwarded, and
\* process_sensor_data returns true instead of raising.
C34_MissingTimestampProcessed ==
    (/\ monitored.handler \in {"process_sensor_message", "receive_sensor_data"}
     /\ monitored.result \notin {"none", "filtered"}
     /\ IsJson(monitored.data)
     /\ "vehicle_id" \in DOMAIN monitored.data
     /\ IsNone(Get(monitored.data, "timestamp")))
        => /\ monitored.result = "processed"
           /\ ~IsNone(monitored.sent)
           /\ monitored.data.vehicle_id \in DOMAIN last_readings

\* C39: the backend distance monitor with a vehicle filter accepts a sensor
\* message of any other vehicle (returns true, acknowledged) and changes
\* nothing: last_readings stays and nothing is sent; in vehicle mode no
\* message is filtered.
C39_FilteredChangesNothing ==
    [][/\ (/\ monitored'.handler = "process_sensor_message"
           /\ deployment.mode = "backend"
           /\ deployment.filter # NoneId
           /\ IsJson(monitored'.data)
           /\ "vehicle_id" \in DOMAIN monitored'.data
           /\ monitored'.data.vehicle_id # deployment.filter)
              => /\ monitored'.result = "filtered"
                 /\ monitored'.response = "ack"
                 /\ last_readings' = last_readings
                 /\ IsNone(monitored'.sent)
       /\ deployment.mode = "vehicle" => monitored'.result # "filtered"]_vars

\* The filtering monitor holds a reading of its own vehicle when another
\* vehicle's message is filtered out.
C39_Witness ==
    /\ deployment = [mode |-> "backend", filter |-> "V1"]
    /\ monitored.result = "filtered"
    /\ monitored.data.vehicle_id = "V2"
    /\ monitored.response = "ack"
    /\ "V1" \in DOMAIN last_readings

\* C35: a vehicle agent publishes brake_applied for a command only after the
\* vehicle's datamock accepted the brake signal: when the signal request
\* fails or is answered with an error status, no brake_applied is published.
C35_StatusOnlyAfterAccepted ==
    \A i \in 1..Len(agent_log) :
        agent_log[i].status => agent_log[i].outcome = "applied"

\* C33: the two decision sites agree: on every processed-distance message
\* with a front distance and a front rate the emergency-brake service's
\* /processed-data handler and the central-director's rules 1-2 give the same
\* triggered or not-triggered outcome, a negative front rate being closing.
C33_DecisionSitesAgree ==
    (/\ handled.handler = "receive_processed_data"
     /\ IsJson(handled.data)
     /\ ~IsNone(Get(handled.data, "front_distance_m"))
     /\ ~IsNone(Get(handled.data, "front_velocity_mps")))
        => ((handled.trigger /\ handled.reason \in {ReasonRule1, ReasonRule2})
                <=> eb_evaluate(handled.data).danger)

\* C32: publish and audit append are a best-effort pair: when the
\* BrakeCommand was published and the audit append that follows fails,
\* trigger_emergency_break still completes normally and the message or
\* request is a success: not answered 500, not nacked and requeued (so that
\* the decision cannot publish a second BrakeCommand on redelivery).
C32_PublishThenAuditFailure ==
    (handled.handler \in {"receive_processed_data", "eb_callback", "event_callback"}
     /\ handled.published
     /\ "emergency_break" \in handled.saves_failed)
        => /\ ~handled.raised
           /\ handled.response \notin {"500", "nack_requeue", "several"}

\* C40: the cooldown ends.  While a vehicle's braking flag is set a clear is
\* scheduled no later than 10 s ahead; the flag goes from false to true only
\* when a BrakeStatus of that vehicle is handled; and with no further
\* BrakeStatus the flag eventually becomes false again.
C40_Braking(v) == v \in DOMAIN vehicle_details /\ vehicle_details[v].brake
ThisListener == [vehicle_id |-> "V1", build |-> "emergency_brake.py"]

InitLoops ==
    /\ vehicle_details = EmptyDict
    /\ timers = << >>
    /\ now = 0
    /\ brake_commands = << >>
    /\ events = << >>
    /\ delivered = 0
    /\ agent_log = << >>
    /\ gps_data = << >>
    /\ deployment = Backend
    /\ emergency_brake_state = NotBraking
    /\ last_readings = EmptyDict
    /\ monitored = NotMonitored
    /\ \E service \in ConsumerLoops :
           threads = [t \in {ConsumerThread} |->
                         [service |-> service, depth |-> 1, waited |-> 0]]
    /\ connection = "open"
    /\ channel = "open"
    /\ consumer = "consuming"
    /\ broker_up = TRUE
    /\ db_faults = 0
    /\ gps_db_up = TRUE
    /\ tracker = TrackerTimeout
    /\ handled = Handled("none", EmptyDict, "none", << >>, NotProcessed(Globals, FALSE), 0)

\* A delivery reaches the callback of the loop that is consuming.
monitor_consumes ==
    /\ Loop.service = "distance-monitor.py"
    /\ consumer = "consuming"
    /\ broker_up
    /\ \E i \in 1..2 : process_sensor_message(ScenarioSamples[i])

tracker_consumes ==
    /\ Loop.service = "location-tracker.py"
    /\ consumer = "consuming"
    /\ broker_up
    /\ \E body \in GpsSamples : lt_callback(body)

brake_listener_consumes ==
    /\ Loop.service = "emergency_brake.py"
    /\ \E msg \in CommandSamples : listener_consumes(ThisListener, msg)

NextLoops ==
    \/ monitor_consumes
    \/ tracker_consumes
    \/ brake_listener_consumes
    \/ BrokerLost
    \/ consumer_fails
    \/ consumer_retries
    \/ BrokerRestored

SpecLoops == InitLoops /\ [][NextLoops]_vars

\* C36: a brake command for this vehicle always has the brake signal POSTed
\* to the simulator, exactly once, whatever became of the audit events
\* published around it.
C36_SignalDespiteAudit ==
    \A i \in 1..Len(agent_log) :
        (agent_log[i].handler = "listener" /\ agent_log[i].own)
            => Len(agent_log[i].signals) = 1

\* A brake command handled while none of its audit events could be published.
C36_Witness ==
    \E i \in 1..Len(agent_log) :
        /\ agent_log[i].handler = "listener"
        /\ agent_log[i].own
        /\ \A k \in 1..Len(agent_log[i].audit) : ~agent_log[i].audit[k]
        /\ agent_log[i].signals = <<"accepted">>

\* C31: a consumer loop that lost its connection keeps retrying and never
\* ends.
C31_LoopNeverEnds == consumer # "dead"

\* ------------------------------------------------------- datamock
\* The simulated vehicle: the Flask handler of POST /emergency-brake and the
\* simulation thread, which share emergency_brake_state under brake_lock.
\* Each action below is one critical section of brake_lock, or the part of
\* a loop iteration outside it.  handled is the last thing the datamock did:
\* a request answered, or data sent, with the brake state before and after.
ThisVehicle == "V1"
SimulationThread == "simulation"
SimulationNotStarted == [pc |-> "start"]
Simulation ==
    IF SimulationThread \in DOMAIN threads THEN threads[SimulationThread]
    ELSE SimulationNotStarted
SetSimulation(pc) == threads' = [t \in {SimulationThread} |-> [pc |-> pc]]

BrakeAnswer(response, status, state) ==
    [response |-> response, status |-> status, state |-> state]

Braking(t) ==
    [is_braking |-> TRUE, brake_start_time |-> Some(t),
     brake_duration |-> brake_duration, brake_position |-> Some(t)]

\* emergency_brake with a brake that starts again when one is under way.
emergency_brake_restarting(state, running, data, t) ==
    IF ~IsJson(data) THEN BrakeAnswer("Internal server error", 500, state)
    ELSE IF data = EmptyDict \/ "vehicle_id" \notin DOMAIN data
    THEN BrakeAnswer("Invalid data - vehicle_id required", 400, state)
    ELSE IF data["vehicle_id"] # ThisVehicle
    THEN BrakeAnswer("Vehicle ID mismatch", 400, state)
    ELSE IF ~running THEN BrakeAnswer("Simulation not running", 500, state)
    ELSE BrakeAnswer(IF state.is_braking THEN "already braking"
                     ELSE "emergency brake activated", 200, Braking(t))

\* emergency_brake(): the answer and the brake state it leaves.  running
\* says global_simulator is set, t is time.time(); the data point that
\* becomes brake_position is the one of the cycle at t.
emergency_brake(state, running, data, t) ==
    IF ~IsJson(data) THEN BrakeAnswer("Internal server error", 500, state)
    ELSE IF data = EmptyDict \/ "vehicle_id" \notin DOMAIN data
    THEN BrakeAnswer("Invalid data - vehicle_id required", 400, state)
    ELSE IF data["vehicle_id"] # ThisVehicle
    THEN BrakeAnswer("Vehicle ID mismatch", 400, state)
    ELSE IF state.is_braking THEN BrakeAnswer("already braking", 200, state)
    ELSE IF ~running THEN BrakeAnswer("Simulation not running", 500, state)
    ELSE BrakeAnswer("emergency brake activated", 200, Braking(t))

DatamockDid(handler, data, response, status, before, after) ==
    handled' = [handler |-> handler, data |-> data, response |-> response,
                status |-> status, before |-> before, after |-> after, at |-> now]

datamock_unchanged ==
    /\ UNCHANGED <<vehicle_details, timers, now, connection, channel, brake_commands,
                   events, broker_up, db_faults, tracker, delivered>>
    /\ UNCHANGED fleet_vars
    /\ UNCHANGED <<deployment, last_readings, monitored>>

\* POST /emergency-brake is answered.
emergency_brake_request(data) ==
    /\ LET r == emergency_brake(emergency_brake_state, Simulation.pc # "start", data, now)
       IN  /\ emergency_brake_state' = r.state
           /\ DatamockDid("emergency_brake", data, r.response, r.status,
                          emergency_brake_state, r.state)
    /\ UNCHANGED threads
    /\ datamock_unchanged

\* start_simulation() creates the simulator and enters its loop.
simulation_starts ==
    /\ Simulation.pc = "start"
    /\ SetSimulation("check")
    /\ UNCHANGED <<handled, emergency_brake_state>>
    /\ datamock_unchanged

\* The head of an iteration, under brake_lock: should_send_data is decided,
\* and a brake whose duration has elapsed is ended.
simulation_checks ==
    /\ Simulation.pc = "check"
    /\ LET state  == emergency_brake_state
           active == /\ state.is_braking
                     /\ now - Val(state.brake_start_time) < state.brake_duration
       IN  /\ emergency_brake_state' = IF state.is_braking /\ ~active THEN NotBraking
                                       ELSE state
           /\ SetSimulation(IF active THEN "sleep" ELSE "send")
    /\ UNCHANGED handled
    /\ datamock_unchanged

\* should_send_data was True: generate_data and send_data_to_endpoints,
\* after brake_lock has been released.
simulation_sends ==
    /\ Simulation.pc = "send"
    /\ DatamockDid("send_data_to_endpoints", EmptyDict, "sent", 200,
                   emergency_brake_state, emergency_brake_state)
    /\ SetSimulation("sleep")
    /\ UNCHANGED emergency_brake_state
    /\ datamock_unchanged

\* time.sleep(SEND_INTERVAL), a tenth of a second, and the next iteration.
simulation_sleeps ==
    /\ Simulation.pc = "sleep"
    /\ SetSimulation("check")
    /\ UNCHANGED <<handled, emergency_brake_state>>
    /\ datamock_unchanged

BrakeRequestSamples ==
    {[vehicle_id |-> "V1"], [vehicle_id |-> "V2"], [timestamp |-> Some(0)],
     EmptyDict, Unparsable}

InitDatamock ==
    /\ Started
    /\ connection = "open"
    /\ channel = "open"
    /\ consumer = "consuming"
    /\ broker_up = TRUE
    /\ db_faults = 0
    /\ gps_db_up = TRUE
    /\ tracker = TrackerTimeout
    /\ handled = Handled("none", EmptyDict, "none", << >>, NotProcessed(Globals, FALSE), 0)

NextDatamock ==
    \/ \E data \in BrakeRequestSamples : emergency_brake_request(data)
    \/ simulation_starts
    \/ simulation_checks
    \/ simulation_sends
    \/ simulation_sleeps
    \/ Tick

SpecDatamock == InitDatamock /\ [][NextDatamock]_vars

\* C37: a brake request answered while the vehicle is braking is answered
\* "already braking" and leaves the brake state as it was; a request
\* without vehicle_id, or for another vehicle, is answered 400 and leaves
\* the brake state as it was.
C37_BrakeRequestFrame ==
    (handled.handler = "emergency_brake" /\ IsJson(handled.data)) =>
        LET named == handled.data # EmptyDict /\ "vehicle_id" \in DOMAIN handled.data
            own   == named /\ handled.data["vehicle_id"] = ThisVehicle
        IN  /\ (own /\ handled.before.is_braking)
                   => /\ handled.response = "already braking"
                      /\ handled.after = handled.before
            /\ ~own => /\ handled.status = 400
                       /\ handled.after = handled.before

\* A request answered "already braking" some time after the brake began.
C37_Witness ==
    /\ handled.handler = "emergency_brake"
    /\ handled.response = "already braking"
    /\ handled.at > Val(handled.before.brake_start_time)
    /\ handled.after = handled.before

\* C38: between the acceptance of a brake request and the end of
\* brake_duration the simulation loop sends no data.
C38_NoSendWhileBraking ==
    handled.handler = "send_data_to_endpoints" =>
        ~(/\ handled.before.is_braking
          /\ handled.at - Val(handled.before.brake_start_time)
                 < handled.before.brake_duration)

====
